---- MODULE Spec2Model ----
(***************************************************************************)
(* Job lifecycle of llamator-mcp-server: the Redis-backed JobStore, the    *)
(* submission service (TestRunService.submit), the ARQ queue runtime as    *)
(* configured by WorkerSettings, and the worker-side _JobExecutor.         *)
(*                                                                         *)
(* Specifications:                                                         *)
(*   SpecStore  the JobStore class driven by arbitrary call sequences      *)
(*              (its contract as a component);                             *)
(*   Spec       the running system: submit, queue, executor, clock         *)
(*              (FairSpec: with a worker, an engine and uploads that       *)
(*              make progress);                                            *)
(*   SpecPaths  the path checks and resolutions applied to any path;       *)
(*   SpecApi    the running system with the callers of its HTTP API;       *)
(*   SpecWait   the running system with tool calls that wait for their     *)
(*              job (FairSpecWait: with a clock that advances);            *)
(*   SpecTool   the tool call over a JobStore that any client writes to;   *)
(*   SpecMinio  the MinIO artifact storage over a bucket that any client   *)
(*              writes to;                                                 *)
(*   SpecUpload the MinIO bucket under the uploads of the worker;          *)
(*   SpecRedact the redaction of run requests before they are stored;      *)
(*   SpecPresign the presign client of one storage and its callers;        *)
(*   SpecSweep  the artifacts root on disk, the executors writing to it    *)
(*              and the sweep of the worker processes that start up.       *)
(***************************************************************************)
EXTENDS Naturals, Sequences, FiniteSets, TLC

VARIABLES
    store,      \* Redis: key -> persisted LlamatorJobInfo (with its expiry)
    now,        \* the clock (_utcnow / Redis time), in ticks
    last,       \* the last JobStore call and what it returned
    subPc,      \* per job id: position of the submit() call that drew it
    resp,       \* per job id: SubmitResult returned by submit()
    queue,      \* ARQ: job ids whose task is waiting for a worker
    job_try,    \* ARQ: per job id, how many times a worker took the task
    payload,    \* ARQ: per job id, the run_config.artifacts_path of its task
    posix,      \* host path flavour: str(Path) is POSIX-absolute or not
    disk,       \* job ids whose local artifacts directory exists
    pc,         \* per job id: position of _JobExecutor.execute
    ex,         \* per job id: the locals of _JobExecutor.execute
    hist,       \* per job id: history of the job (counters, step trace)
    bucket,     \* object storage: job ids whose archive is under "<job_id>/"
    http,       \* the last response of the HTTP API or of the tool call
    wait,       \* per job id: position of _await_job_completion
    path_arg,   \* a path string handed to a path-safety check
    chk,        \* what the last path-safety check or resolution gave
    objects,    \* MinIO bucket: object key -> last_modified (None when absent)
    art,        \* the last call of MinioArtifactsStorage and what it gave
    req_arg,    \* two run requests handed to the redaction
    presign,    \* one storage instance: its presign client, lock and callers
    local       \* the artifacts root on disk: entries and their mtimes

storeVars == <<store, now, last>>
subVars   == <<subPc, resp>>
arqVars   == <<queue, job_try, payload>>
execVars  == <<disk, pc, ex, hist>>
apiVars   == <<http, wait>>
pathVars  == <<path_arg, chk>>
compVars  == <<objects, art, req_arg, presign, local>>
vars      == <<store, now, last, subPc, resp, queue, job_try, payload, posix,
               disk, pc, ex, hist, bucket, http, wait, path_arg, chk,
               objects, art, req_arg, presign, local>>

----------------------------------------------------------------------------
(* Bounds of the model *)

MaxTime == 2        \* the clock runs 0..MaxTime
JobTtl  == 2        \* job_ttl_seconds, in ticks (settings: any value >= 1)
MaxSegs == 3        \* longest path string, in "/"-separated pieces
WaitTimeout == 2    \* run_timeout_seconds, in ticks (settings: any value >= 1)
PollInterval == 1   \* poll_interval_s, in ticks
RetentionTtl == 1   \* artifacts_minio_ttl_seconds, in ticks (>= 1)
ListMaxKeys == 2    \* list_max_keys (>= 1)

Jobs == {"j1"}   \* job ids (uuid4().hex values)

----------------------------------------------------------------------------
(* Values *)

None == << >>
Some(x) == <<x>>

QUEUED    == "queued"
RUNNING   == "running"
SUCCEEDED == "succeeded"
FAILED    == "failed"
JobStatus == {QUEUED, RUNNING, SUCCEEDED, FAILED}

Terminal(s) == s \in {SUCCEEDED, FAILED}

\* dict[str, dict[str, int]] as a set of <<key, set of <<key, int>>>>
EmptyAgg == {}
AggOne   == { <<"jailbreak", { <<"broken", 1>>, <<"resilient", 0>> }>> }
AggTwo   == { <<"jailbreak", { <<"broken", 0>> }>>, <<"sycophancy", {}>> }
Aggregates == {EmptyAgg, AggOne, AggTwo}

ErrorTypes == {"RuntimeError", "ValueError", "EmptyAggregatedResultError"}
Messages   == {"", "boom"}

----------------------------------------------------------------------------
(* JobStore (infra/job_store.py) *)

_key(job_id) == "llamator:job:" \o job_id

\* a variant that always writes the separator
_build_error_notice_always_colon(error_type, message) ==
    error_type \o ": " \o message

_build_error_notice(error_type, message) ==
    IF message # "" THEN error_type \o ": " \o message ELSE error_type

\* redis.get(key): the persisted value, or None when the key is absent
RedisGet(st, key) == IF key \in DOMAIN st THEN Some(st[key]) ELSE None

\* a variant of redis.set that keeps the TTL a key already has (KEEPTTL)
RedisSet_keepttl(st, key, info, t) ==
    [k \in DOMAIN st \cup {key} |->
        IF k = key
        THEN [info |-> info,
              expires_at |-> IF key \in DOMAIN st THEN st[key].expires_at
                                                  ELSE t + JobTtl]
        ELSE st[k]]

\* redis.set(key, raw, ex=ttl): (over)writes the key and restarts its TTL
RedisSet(st, key, info, t) ==
    [k \in DOMAIN st \cup {key} |->
        IF k = key THEN [info |-> info, expires_at |-> t + JobTtl] ELSE st[k]]

\* Redis drops every key whose TTL has run out at time t
RedisExpire(st, t) ==
    [k \in {x \in DOMAIN st : st[x].expires_at > t} |-> st[k]]

\* JobStore.get: [raised, info]
JobStoreGet(st, job_id) ==
    LET raw == RedisGet(st, _key(job_id))
    IN  IF raw = None
        THEN [raised |-> TRUE, info |-> None]
        ELSE [raised |-> FALSE, info |-> Some(raw[1].info)]

\* JobStore._set
JobStoreSet(st, job_id, info, t) == RedisSet(st, _key(job_id), info, t)

\* JobStore.create: [raised, store]
JobStoreCreate(st, job_id, request_redacted, t) ==
    LET info == [job_id |-> job_id, status |-> QUEUED,
                 created_at |-> t, updated_at |-> t,
                 request |-> request_redacted,
                 result |-> None, error |-> None, error_notice |-> None]
    IN  [raised |-> FALSE, store |-> JobStoreSet(st, job_id, info, t)]

\* a variant of update_status that stamps created_at as well
JobStoreUpdateStatus_restamps(st, job_id, status, t) ==
    LET got == JobStoreGet(st, job_id)
    IN  IF got.raised
        THEN [raised |-> TRUE, store |-> st]
        ELSE LET updated == [got.info[1] EXCEPT !.status = status,
                                                 !.created_at = t,
                                                 !.updated_at = t]
             IN  [raised |-> FALSE, store |-> JobStoreSet(st, job_id, updated, t)]

\* a variant of update_status that starts a record when it finds none and
\* does not raise
JobStoreUpdateStatus_creating(st, job_id, status, t) ==
    LET got  == JobStoreGet(st, job_id)
        info == IF got.raised
                THEN [job_id |-> job_id, status |-> status, created_at |-> t,
                      updated_at |-> t,
                      request |-> [tested_model |-> [api_key_present |-> TRUE]],
                      result |-> None, error |-> None, error_notice |-> None]
                ELSE [got.info[1] EXCEPT !.status = status, !.updated_at = t]
    IN  [raised |-> FALSE, store |-> JobStoreSet(st, job_id, info, t)]

\* a variant of update_status that writes a record when it finds none
JobStoreUpdateStatus_upsert(st, job_id, status, t) ==
    LET got == JobStoreGet(st, job_id)
    IN  IF got.raised
        THEN [raised |-> TRUE,
              store |-> JobStoreCreate(st, job_id, [tested_model |-> [api_key_present |-> TRUE]], t).store]
        ELSE LET updated == [got.info[1] EXCEPT !.status = status,
                                                 !.updated_at = t]
             IN  [raised |-> FALSE, store |-> JobStoreSet(st, job_id, updated, t)]

\* JobStore.update_status: [raised, store]
JobStoreUpdateStatus(st, job_id, status, t) ==
    LET got == JobStoreGet(st, job_id)
    IN  IF got.raised
        THEN [raised |-> TRUE, store |-> st]
        ELSE LET updated == [got.info[1] EXCEPT !.status = status,
                                                 !.updated_at = t]
             IN  [raised |-> FALSE, store |-> JobStoreSet(st, job_id, updated, t)]

\* a variant of set_result that leaves a previous error and notice in place
JobStoreSetResult_keeps_error(st, job_id, aggregated, t) ==
    LET got == JobStoreGet(st, job_id)
    IN  IF got.raised
        THEN [raised |-> TRUE, store |-> st]
        ELSE LET result  == [aggregated |-> aggregated, finished_at |-> t]
                 updated == [got.info[1] EXCEPT !.status = SUCCEEDED,
                                                 !.updated_at = t,
                                                 !.result = Some(result)]
             IN  [raised |-> FALSE,
                  store |-> RedisSet(st, _key(job_id), updated, t)]

\* JobStore.set_result: [raised, store]
JobStoreSetResult(st, job_id, aggregated, t) ==
    LET got == JobStoreGet(st, job_id)
    IN  IF got.raised
        THEN [raised |-> TRUE, store |-> st]
        ELSE LET result  == [aggregated |-> aggregated, finished_at |-> t]
                 updated == [got.info[1] EXCEPT !.status = SUCCEEDED,
                                                 !.updated_at = t,
                                                 !.result = Some(result),
                                                 !.error = None,
                                                 !.error_notice = None]
             IN  [raised |-> FALSE, store |-> JobStoreSet(st, job_id, updated, t)]

\* a variant of set_error that stores the error without a notice
JobStoreSetError_without_notice(st, job_id, error_type, message, t) ==
    LET got == JobStoreGet(st, job_id)
    IN  IF got.raised
        THEN [raised |-> TRUE, store |-> st]
        ELSE LET error   == [error_type |-> error_type, message |-> message,
                             occurred_at |-> t]
                 updated == [got.info[1] EXCEPT !.status = FAILED,
                                                 !.updated_at = t,
                                                 !.error = Some(error)]
             IN  [raised |-> FALSE, store |-> JobStoreSet(st, job_id, updated, t)]

\* JobStore.set_error: [raised, store]
JobStoreSetError(st, job_id, error_type, message, t) ==
    LET got == JobStoreGet(st, job_id)
    IN  IF got.raised
        THEN [raised |-> TRUE, store |-> st]
        ELSE LET error   == [error_type |-> error_type, message |-> message,
                             occurred_at |-> t]
                 notice  == _build_error_notice(error_type, message)
                 updated == [got.info[1] EXCEPT !.status = FAILED,
                                                 !.updated_at = t,
                                                 !.error = Some(error),
                                                 !.error_notice = Some(notice)]
             IN  [raised |-> FALSE, store |-> JobStoreSet(st, job_id, updated, t)]

\* The record of a job as a poller reads it now (None when absent)
Rec(job_id) == JobStoreGet(store, job_id).info
Has(job_id) == Rec(job_id) # None
StatusOf(job_id) == Rec(job_id)[1].status

----------------------------------------------------------------------------
(* The JobStore as a component: any caller, any call sequence *)

NoCall == [op |-> "none", job |-> "", raised |-> FALSE, before |-> None,
           info |-> None, agg |-> EmptyAgg, error_type |-> "", message |-> ""]

\* a call of `op` for job_id: whether it raised, and the record it found
Call(op, job_id, raised) ==
    [NoCall EXCEPT !.op = op, !.job = job_id, !.raised = raised,
                   !.before = JobStoreGet(store, job_id).info]

Redacted(job_id) == [tested_model |-> [api_key_present |-> TRUE]]

StoreInit ==
    /\ store = [k \in {} |-> None]
    /\ now = 0
    /\ last = NoCall

CallCreate(j) ==
    LET r == JobStoreCreate(store, j, Redacted(j), now)
    IN  /\ store' = r.store
        /\ last' = Call("create", j, r.raised)
        /\ UNCHANGED <<apiVars, pathVars, compVars, bucket>>
        /\ UNCHANGED <<now, subVars, arqVars, posix, execVars>>

CallUpdateStatus(j, s) ==
    LET r == JobStoreUpdateStatus(store, j, s, now)
    IN  /\ store' = r.store
        /\ last' = Call("update_status", j, r.raised)
        /\ UNCHANGED <<apiVars, pathVars, compVars, bucket>>
        /\ UNCHANGED <<now, subVars, arqVars, posix, execVars>>

CallSetResult(j, a) ==
    LET r == JobStoreSetResult(store, j, a, now)
    IN  /\ store' = r.store
        /\ last' = [Call("set_result", j, r.raised) EXCEPT !.agg = a]
        /\ UNCHANGED <<apiVars, pathVars, compVars, bucket>>
        /\ UNCHANGED <<now, subVars, arqVars, posix, execVars>>

CallSetError(j, t, m) ==
    LET r == JobStoreSetError(store, j, t, m, now)
    IN  /\ store' = r.store
        /\ last' = [Call("set_error", j, r.raised)
                        EXCEPT !.error_type = t, !.message = m]
        /\ UNCHANGED <<apiVars, pathVars, compVars, bucket>>
        /\ UNCHANGED <<now, subVars, arqVars, posix, execVars>>

CallGet(j) ==
    LET r == JobStoreGet(store, j)
    IN  /\ last' = [Call("get", j, r.raised) EXCEPT !.info = r.info]
        /\ UNCHANGED <<apiVars, pathVars, compVars, bucket>>
        /\ UNCHANGED <<store, now, subVars, arqVars, posix, execVars>>

\* Time passes; Redis expires the keys whose TTL ran out
Tick ==
    /\ now < MaxTime
    /\ now' = now + 1
    /\ store' = RedisExpire(store, now + 1)
    /\ last' = NoCall
    /\ UNCHANGED <<apiVars, pathVars, compVars, bucket>>
    /\ UNCHANGED <<subVars, arqVars, posix, execVars>>

\* the job ids the component is driven with
StoreJobs == {"j1"}

StoreNext ==
    \/ \E j \in StoreJobs : CallCreate(j)
    \/ \E j \in StoreJobs, s \in JobStatus : CallUpdateStatus(j, s)
    \/ \E j \in StoreJobs, a \in Aggregates : CallSetResult(j, a)
    \/ \E j \in StoreJobs, t \in ErrorTypes, m \in Messages : CallSetError(j, t, m)
    \/ \E j \in StoreJobs : CallGet(j)
    \/ Tick

----------------------------------------------------------------------------
(* Paths: a path is its sequence of segments; a path string remembers how  *)
(* PurePosixPath reads it and how the host's Path reads it                 *)

IsPrefix(a, b) == Len(a) <= Len(b) /\ SubSeq(b, 1, Len(a)) = a

\* settings.artifacts_root / job_id, resolved
JobRoot(job_id) == <<"artifacts", job_id>>

\* str(path) of a resolved (absolute) host path: POSIX-absolute on a POSIX
\* host; on a host with drive letters PurePosixPath sees one relative segment
StrOfResolved(parts, posixHost) ==
    [posix_absolute |-> posixHost, native_absolute |-> TRUE, parts |-> parts]

\* a path string as typed by a caller: whether it starts with "/" and the
\* pieces between its "/" separators ("" comes from "//" or a trailing "/")
RawSegs == {"", ".", "..", "a"}
SeqsUpTo(S, n) == UNION {[1..k -> S] : k \in 0..n}
RawPaths == [abs : BOOLEAN, segs : SeqsUpTo(RawSegs, MaxSegs)]

\* PurePosixPath(...).parts without the root: "" and "." pieces are dropped,
\* ".." pieces are kept
RECURSIVE Normalize(_)
Normalize(segs) ==
    IF segs = << >> THEN << >>
    ELSE IF Head(segs) \in {"", "."} THEN Normalize(Tail(segs))
         ELSE <<Head(segs)>> \o Normalize(Tail(segs))

\* PurePosixPath(str): is_absolute() and parts; str(p) is "." when no part
\* is left
PurePosixPath(p) ==
    [posix_absolute |-> p.abs, native_absolute |-> p.abs,
     parts |-> Normalize(p.segs)]

HasDotDot(parts) == ".." \in {parts[i] : i \in DOMAIN parts}

\* Path.resolve(strict=False) of an absolute path whose directories hold no
\* symlink (a job's directory does not exist before its only run): ".."
\* steps back one segment
RECURSIVE ResolvePath(_)
ResolvePath(parts) ==
    IF parts = << >> THEN << >>
    ELSE LET front == ResolvePath(SubSeq(parts, 1, Len(parts) - 1))
             l     == parts[Len(parts)]
         IN  IF l = ".."
             THEN IF front = << >> THEN << >>
                  ELSE SubSeq(front, 1, Len(front) - 1)
             ELSE Append(front, l)

\* run_config.artifacts_path values of a request: absent, ".", "a", "../a"
UserPaths ==
    {None, Some([abs |-> FALSE, segs |-> <<".">>]),
     Some([abs |-> FALSE, segs |-> <<"a">>]),
     Some([abs |-> FALSE, segs |-> <<"..", "a">>])}

\* LlamatorRunConfig parsed from the request body
UserCfg(u) ==
    [artifacts_path |-> IF u = None THEN None ELSE Some(PurePosixPath(u[1]))]

\* services._resolve_artifacts_dir: [raised, dir]
_resolve_artifacts_dir(job_id, user_cfg) ==
    LET base == JobRoot(job_id)
    IN  IF user_cfg.artifacts_path = None
        THEN [raised |-> FALSE, dir |-> base]
        ELSE LET rel == user_cfg.artifacts_path[1]
                 candidate == IF rel.native_absolute THEN ResolvePath(rel.parts)
                              ELSE ResolvePath(base \o rel.parts)
             IN  IF ~IsPrefix(base, candidate)
                 THEN [raised |-> TRUE, dir |-> base]
                 ELSE [raised |-> FALSE, dir |-> candidate]

\* services._merge_run_config: [raised, run_config], the run_config dict is
\* written into the payload
_merge_run_config(job_id, user_cfg, posixHost) ==
    LET d == _resolve_artifacts_dir(job_id, user_cfg)
    IN  [raised |-> d.raised,
         run_config |-> [artifacts_path |-> Some(StrOfResolved(d.dir, posixHost))]]

\* LlamatorRunConfig._validate_artifacts_path: TRUE when it raises
_validate_artifacts_path(v) ==
    v # None /\ (v[1].posix_absolute \/ HasDotDot(v[1].parts))

\* a variant of the check that looks for ".." in the first segment only
_safe_posix_relpath_first_segment(val) ==
    \/ val.parts = << >>
    \/ val.posix_absolute
    \/ (val.parts # << >> /\ val.parts[1] = "..")

\* worker_settings._safe_posix_relpath: TRUE when it raises
_safe_posix_relpath(val) ==
    \/ val.parts = << >>
    \/ val.posix_absolute
    \/ HasDotDot(val.parts)

\* a variant of the store's check without the test for "" and "."
minio_safe_posix_relpath_allows_dot(path) ==
    LET normalized == PurePosixPath(path)
    IN  [raised |-> \/ normalized.posix_absolute
                    \/ HasDotDot(normalized.parts),
         parts |-> normalized.parts]

\* infra/artifacts/minio._safe_posix_relpath: [raised, parts]
minio_safe_posix_relpath(path) ==
    LET normalized == PurePosixPath(path)
    IN  [raised |-> \/ normalized.posix_absolute
                    \/ HasDotDot(normalized.parts)
                    \/ normalized.parts = << >>,
         parts |-> normalized.parts]

\* infra/artifacts/minio._job_prefix: the object keys of a job
_job_prefix(job_id) == <<job_id>>

\* infra/artifacts/minio._object_key: [raised, key]
_object_key(job_id, rel_path) ==
    LET rel == minio_safe_posix_relpath(rel_path)
    IN  [raised |-> rel.raised, key |-> _job_prefix(job_id) \o rel.parts]

\* worker_settings._resolve_local_artifacts_dir: [raised, dir]
_resolve_local_artifacts_dir(job_id, user_cfg) ==
    LET base == JobRoot(job_id)
    IN  IF user_cfg.artifacts_path = None
        THEN [raised |-> FALSE, dir |-> base]
        ELSE LET rel == user_cfg.artifacts_path[1]
                 candidate == IF rel.native_absolute THEN ResolvePath(rel.parts)
                              ELSE ResolvePath(base \o rel.parts)
             IN  IF _safe_posix_relpath(rel)
                 THEN [raised |-> TRUE, dir |-> base]
                 ELSE IF ~IsPrefix(base, candidate)
                      THEN [raised |-> TRUE, dir |-> base]
                      ELSE [raised |-> FALSE, dir |-> candidate]

\* _RunInputs.from_payload + to_resolved_run on the payload's run_config:
\* [raised, type, dir]
ResolveInputs(job_id, run_config) ==
    IF _validate_artifacts_path(run_config.artifacts_path)
    THEN [raised |-> TRUE, type |-> "ValidationError", dir |-> << >>]
    ELSE LET r == _resolve_local_artifacts_dir(job_id, run_config)
         IN  [raised |-> r.raised, type |-> "ValueError", dir |-> r.dir]

----------------------------------------------------------------------------
(* The path checks and resolutions applied to any path string *)

NoRaw == [abs |-> FALSE, segs |-> << >>]
NoChk == [op |-> "none", raised |-> FALSE, stage |-> "", dir |-> << >>,
          root |-> << >>]

PathFrame ==
    UNCHANGED <<storeVars, subVars, arqVars, posix, execVars, bucket, apiVars,
                path_arg, compVars>>

\* _object_key(job_id, path_arg): the artifact store's check and the key it builds
CheckObjectKey(j) ==
    /\ LET r == _object_key(j, path_arg)
       IN  chk' = [NoChk EXCEPT !.op = "object_key", !.raised = r.raised,
                                !.dir = r.key, !.root = _job_prefix(j)]
    /\ PathFrame

\* worker_settings._safe_posix_relpath(path_arg): the executor's check
CheckSafeRelpath ==
    /\ chk' = [NoChk EXCEPT !.op = "safe_relpath",
                            !.raised = _safe_posix_relpath(PurePosixPath(path_arg)),
                            !.dir = PurePosixPath(path_arg).parts]
    /\ PathFrame

\* the executor resolving a payload whose run_config.artifacts_path is path_arg
CheckResolveInputs(j) ==
    /\ LET r == ResolveInputs(j, [artifacts_path |-> Some(PurePosixPath(path_arg))])
       IN  chk' = [NoChk EXCEPT !.op = "resolve_inputs", !.raised = r.raised,
                                !.stage = "worker", !.dir = r.dir,
                                !.root = JobRoot(j)]
    /\ PathFrame

\* submit resolving the directory of a request whose artifacts_path is path_arg
CheckSubmitDir(j) ==
    /\ LET cfg == UserCfg(Some(path_arg))
           d   == _resolve_artifacts_dir(j, cfg)
       IN  IF _validate_artifacts_path(cfg.artifacts_path)
           THEN chk' = [NoChk EXCEPT !.op = "submit_dir", !.raised = TRUE,
                                     !.stage = "request", !.root = JobRoot(j)]
           ELSE chk' = [NoChk EXCEPT !.op = "submit_dir", !.raised = d.raised,
                                     !.stage = "submit", !.dir = d.dir,
                                     !.root = JobRoot(j)]
    /\ PathFrame

\* a request whose artifacts_path is path_arg, from submit to the executor
CheckSubmitThenResolve(j) ==
    /\ LET cfg == UserCfg(Some(path_arg))
           m   == _merge_run_config(j, cfg, posix)
           r   == ResolveInputs(j, m.run_config)
       IN  IF _validate_artifacts_path(cfg.artifacts_path)
           THEN chk' = [NoChk EXCEPT !.op = "submit_resolve", !.raised = TRUE,
                                     !.stage = "request", !.root = JobRoot(j)]
           ELSE IF m.raised
           THEN chk' = [NoChk EXCEPT !.op = "submit_resolve", !.raised = TRUE,
                                     !.stage = "submit", !.root = JobRoot(j)]
           ELSE chk' = [NoChk EXCEPT !.op = "submit_resolve", !.raised = r.raised,
                                     !.stage = "worker", !.dir = r.dir,
                                     !.root = JobRoot(j)]
    /\ PathFrame

PathsNext ==
    \/ \E j \in Jobs : CheckObjectKey(j)
    \/ CheckSafeRelpath
    \/ \E j \in Jobs : CheckResolveInputs(j)
    \/ \E j \in Jobs : CheckSubmitDir(j)
    \/ \E j \in Jobs : CheckSubmitThenResolve(j)

----------------------------------------------------------------------------
(* MinioArtifactsStorage over a bucket of objects (infra/artifacts/minio.py) *)
(* An object key is the sequence of the pieces between its "/" separators:  *)
(* "j1/" is <<"j1", "">>, "j1/sub/a" is <<"j1", "sub", "a">>.               *)

\* the keys the bucket may hold: the archives of two jobs, a file, and two
\* directory markers ("j1/" and "j1/sub/")
ObjectKeys == { <<"j1", "artifacts.zip">>, <<"j1", "">>, <<"j1", "sub", "">>,
                <<"j1", "sub", "a">>, <<"j2", "artifacts.zip">> }

NoObjects == [k \in ObjectKeys |-> None]

\* the keys that get written while the storage is observed
WrittenKeys == { <<"j1", "artifacts.zip">>, <<"j1", "sub", "">>,
                 <<"j1", "sub", "a">> }

\* the rest of a key after the "<job_id>/" prefix: name[len(prefix):]
RelOf(key) == SubSeq(key, 2, Len(key))

\* name.startswith(prefix), prefix being "<job_id>/"
StartsWithPrefix(key, job_id) == Len(key) >= 2 /\ key[1] = job_id

\* the path string of a listed entry, as a caller types it back
AsRawPath(rel) == [abs |-> rel # << >> /\ rel[1] = "" /\ Len(rel) > 1, segs |-> rel]

\* position of a relative path in the ascending order of the path strings
\* "artifacts.zip" < "sub/" < "sub/a"
PathRank(rel) ==
    CASE rel = <<"artifacts.zip">> -> 1
      [] rel = <<"sub", "">>       -> 2
      [] rel = <<"sub", "a">>      -> 3
      [] OTHER                     -> 0

\* _is_expired(last_modified, retention_seconds, now)
_is_expired(last_modified, retention_seconds, t) ==
    IF retention_seconds < 1 THEN FALSE
    ELSE IF last_modified = None THEN FALSE
    ELSE last_modified[1] + retention_seconds <= t

\* error codes an S3 backend answers with; the first four mean "no such object"
NotFoundCodes == {"NoSuchKey", "NoSuchObject", "NoSuchBucket", "NotFound"}
S3ErrorCodes  == NotFoundCodes \cup {"AccessDenied", "InternalError"}

\* the keys in ascending order of their strings
KeyOrder == << <<"j1", "">>, <<"j1", "artifacts.zip">>, <<"j1", "sub", "">>,
               <<"j1", "sub", "a">>, <<"j2", "artifacts.zip">> >>

Reverse(seq) == [i \in 1..Len(seq) |-> seq[Len(seq) + 1 - i]]

\* client.list_objects(bucket, prefix, recursive=True): the names of the
\* objects under the prefix, in ascending order
list_objects(objs, job_id) ==
    SelectSeq(KeyOrder, LAMBDA k : objs[k] # None /\ StartsWithPrefix(k, job_id))

\* the orders the loop of list_files is run with: the backend's, and the
\* opposite one (the code sorts what it collected and relies on neither)
IterationOrders(objs, job_id) ==
    {list_objects(objs, job_id), Reverse(list_objects(objs, job_id))}

\* items.sort(key=lambda x: x.path)
RECURSIVE SortByPath(_)
SortByPath(items) ==
    IF items = << >> THEN << >>
    ELSE LET m    == CHOOSE i \in 1..Len(items) :
                         \A k \in 1..Len(items) :
                             PathRank(items[i].path) <= PathRank(items[k].path)
             rest == [k \in 1..(Len(items) - 1) |->
                         IF k < m THEN items[k] ELSE items[k + 1]]
         IN  <<items[m]>> \o SortByPath(rest)

\* the loop of list_files over the names the backend gave:
\* [items, to_delete], stopping once list_max_keys items are collected
RECURSIVE ListLoop(_, _, _, _, _, _)
ListLoop(names, objs, job_id, t, items, to_delete) ==
    IF names = << >> \/ Len(items) >= ListMaxKeys
    THEN [items |-> items, to_delete |-> to_delete]
    ELSE LET name == Head(names)
             rel  == RelOf(name)
         IN  IF ~StartsWithPrefix(name, job_id) \/ rel = <<"">>
             THEN ListLoop(Tail(names), objs, job_id, t, items, to_delete)
             ELSE IF _is_expired(objs[name], RetentionTtl, t)
             THEN ListLoop(Tail(names), objs, job_id, t, items,
                           to_delete \cup {name})
             ELSE ListLoop(Tail(names), objs, job_id, t,
                           Append(items, [path |-> rel]),
                           to_delete)

\* a variant of list_files that reads the ages as of time 0, when nothing
\* has expired yet, and so lists the expired objects too
MinioArtifactsStorage_list_files_keeps_expired(objs, job_id, t, names, fails, kept) ==
    IF fails
    THEN [raised |-> "ArtifactsStorageError", files |-> << >>, objects |-> objs]
    ELSE LET r == ListLoop(names, objs, job_id, 0, << >>, {})
         IN  [raised |-> "none", files |-> SortByPath(r.items), objects |-> objs]

\* MinioArtifactsStorage.list_files: [raised, files, objects]. `names` is the
\* backend's iteration, `fails` a failure of list_objects, `kept` says that
\* remove_object fails for the expired objects (the failure is passed over)
MinioArtifactsStorage_list_files(objs, job_id, t, names, fails, kept) ==
    IF fails
    THEN [raised |-> "ArtifactsStorageError", files |-> << >>, objects |-> objs]
    ELSE LET r == ListLoop(names, objs, job_id, t, << >>, {})
         IN  [raised |-> "none",
              files |-> SortByPath(r.items),
              objects |-> [k \in ObjectKeys |->
                              IF k \in r.to_delete /\ ~kept THEN None ELSE objs[k]]]

\* a variant of get_download_link that signs a URL without looking at the age
MinioArtifactsStorage_get_download_link_any_age(objs, job_id, rel_path, expires_seconds, t, fault, kept) ==
    LET key == _object_key(job_id, rel_path)
    IN  IF expires_seconds < 1 \/ key.raised
        THEN [raised |-> "ValueError", url |-> None, objects |-> objs]
        ELSE IF key.key \notin ObjectKeys \/ objs[key.key] = None
        THEN [raised |-> "FileNotFoundError", url |-> None, objects |-> objs]
        ELSE [raised |-> "none", url |-> Some(key.key), objects |-> objs]

\* MinioArtifactsStorage.get_download_link: [raised, url, objects]. `fault`
\* is the S3 error the backend answers with, if any, and the call it answers
\* it to (_get_region for the presign client, stat_object, or the signing);
\* stat_object of an absent object is answered NoSuchKey; `kept` says the
\* remove_object of an expired object fails
MinioArtifactsStorage_get_download_link(objs, job_id, rel_path, expires_seconds, t, fault, kept) ==
    LET key == _object_key(job_id, rel_path)
    IN  IF expires_seconds < 1 \/ key.raised
        THEN [raised |-> "ValueError", url |-> None, objects |-> objs]
        ELSE IF fault.stage = "region"
        THEN [raised |-> "ArtifactsStorageError", url |-> None, objects |-> objs]
        ELSE LET absent == key.key \notin ObjectKeys \/ objs[key.key] = None
                 stat   == IF fault.stage = "stat" THEN fault.code
                           ELSE IF absent THEN "NoSuchKey" ELSE ""
             IN  IF stat \in NotFoundCodes
                 THEN [raised |-> "FileNotFoundError", url |-> None, objects |-> objs]
                 ELSE IF stat # ""
                 THEN [raised |-> "ArtifactsStorageError", url |-> None,
                       objects |-> objs]
                 ELSE IF _is_expired(objs[key.key], RetentionTtl, t)
                 THEN [raised |-> "FileNotFoundError", url |-> None,
                       objects |-> IF kept THEN objs
                                   ELSE [objs EXCEPT ![key.key] = None]]
                 ELSE IF fault.stage = "sign"
                 THEN [raised |-> "ArtifactsStorageError", url |-> None,
                       objects |-> objs]
                 ELSE [raised |-> "none", url |-> Some(key.key), objects |-> objs]

NoArt == [op |-> "none", job |-> "", path |-> NoRaw, raised |-> "none",
          files |-> << >>, url |-> None]

MinioFrame ==
    UNCHANGED <<storeVars, subVars, arqVars, posix, execVars, bucket, apiVars,
                pathVars, req_arg, presign, local>>

\* an object is written under a key (an upload, or another client of the
\* bucket); last_modified is the time of the write
PutObject(k) ==
    /\ objects' = [objects EXCEPT ![k] = Some(now)]
    /\ art' = NoArt
    /\ MinioFrame

\* list_files(job_id), the backend iterating the names in any order
MinioListFiles(j, fails, kept) ==
    /\ \E names \in IterationOrders(objects, j) :
          LET r == MinioArtifactsStorage_list_files(objects, j, now, names, fails, kept)
          IN  /\ objects' = r.objects
              /\ art' = [NoArt EXCEPT !.op = "list_files", !.job = j,
                                      !.raised = r.raised, !.files = r.files]
    /\ MinioFrame

\* get_download_link(job_id, rel_path, expires_seconds)
MinioGetDownloadLink(j, p, e, fault, kept) ==
    LET r == MinioArtifactsStorage_get_download_link(objects, j, p, e, now, fault, kept)
    IN  /\ objects' = r.objects
        /\ art' = [NoArt EXCEPT !.op = "get_download_link", !.job = j, !.path = p,
                                !.raised = r.raised, !.url = r.url]
        /\ MinioFrame

\* the archive key f"{prefix}artifacts.zip"
ArchiveKey(job_id) == <<job_id, "artifacts.zip">>

\* _cleanup_prefix without the remove_object calls
_cleanup_prefix_nothing(objs, job_id, kept) == objs

\* _cleanup_prefix: remove_object for every listed name that starts with the
\* prefix (the prefix-only marker included); an S3Error of remove_object is
\* passed over (`kept`) and the object stays
_cleanup_prefix(objs, job_id, kept) ==
    [k \in ObjectKeys |->
        IF StartsWithPrefix(k, job_id) /\ ~kept THEN None ELSE objs[k]]

\* upload_job_artifacts(job_id, local_root): `exists` says local_root is
\* there; `fault` is the step that fails ("zip" building the archive,
\* "bucket" bucket_exists, "list" list_objects of _cleanup_prefix, "put"
\* fput_object, "none"); `contacted` says a backend call was made
MinioArtifactsStorage_upload_job_artifacts(objs, job_id, exists, t, fault, kept) ==
    IF ~exists
    THEN [raised |-> "none", objects |-> objs, contacted |-> FALSE]
    ELSE IF fault = "zip"
    THEN [raised |-> "OSError", objects |-> objs, contacted |-> FALSE]
    ELSE IF fault \in {"bucket", "list"}
    THEN [raised |-> "ArtifactsStorageError", objects |-> objs, contacted |-> TRUE]
    ELSE LET cleared == _cleanup_prefix(objs, job_id, kept)
         IN  IF fault = "put"
             THEN [raised |-> "ArtifactsStorageError", objects |-> cleared,
                   contacted |-> TRUE]
             ELSE [raised |-> "none",
                   objects |-> [cleared EXCEPT ![ArchiveKey(job_id)] = Some(t)],
                   contacted |-> TRUE]

UploadFaults == {"none", "zip", "bucket", "list", "put"}

\* upload_job_artifacts(job_id, local_root)
MinioUpload(j, exists, fault, kept) ==
    LET r == MinioArtifactsStorage_upload_job_artifacts(objects, j, exists, now,
                                                        fault, kept)
    IN  /\ objects' = r.objects
        /\ art' = [NoArt EXCEPT !.op = "upload_job_artifacts", !.job = j,
                                !.raised = r.raised]
        /\ MinioFrame

\* time passes for the bucket
MinioTick ==
    /\ now < MaxTime
    /\ now' = now + 1
    /\ art' = NoArt
    /\ UNCHANGED <<store, last, subVars, arqVars, posix, execVars, bucket,
                   apiVars, pathVars, objects, req_arg, presign, local>>

\* the job the storage is asked about (the bucket also holds another job's)
MinioJobs == {"j1"}

\* paths a caller asks a link for: the paths a listing can give, and a
\* traversal into the other job's prefix
LinkPaths ==
    {AsRawPath(RelOf(k)) : k \in {x \in ObjectKeys : x[1] = "j1" /\ RelOf(x) # <<"">>}}
        \cup {[abs |-> FALSE, segs |-> <<"..", "j2", "artifacts.zip">>]}

\* how a call goes: <<fails, kept>> for a listing, <<expires_seconds, fault,
\* kept>> for a link; one backend fault at a time
NoFault == [stage |-> "none", code |-> ""]
Faults ==
    {[stage |-> "stat", code |-> c] : c \in S3ErrorCodes}
        \cup {[stage |-> "region", code |-> "NoSuchBucket"],
              [stage |-> "region", code |-> "AccessDenied"],
              [stage |-> "sign", code |-> "AccessDenied"]}
\* <<exists, fault, kept>> for an upload: a removal can only fail where
\* _cleanup_prefix is reached
UploadCalls ==
    {<<FALSE, "none", FALSE>>}
        \cup {<<TRUE, f, FALSE>> : f \in UploadFaults}
        \cup {<<TRUE, "none", TRUE>>, <<TRUE, "put", TRUE>>}
ListCalls == {<<FALSE, FALSE>>, <<FALSE, TRUE>>, <<TRUE, FALSE>>}
LinkCalls ==
    {<<1, f, FALSE>> : f \in Faults \cup {NoFault}}
        \cup {<<1, NoFault, TRUE>>, <<0, NoFault, FALSE>>}

MinioNext ==
    \/ \E k \in WrittenKeys : PutObject(k)
    \/ \E j \in MinioJobs, c \in ListCalls : MinioListFiles(j, c[1], c[2])
    \/ \E j \in MinioJobs, p \in LinkPaths, c \in LinkCalls :
            MinioGetDownloadLink(j, p, c[1], c[2], c[3])
    \/ MinioTick

\* the bucket with the worker uploads of the job and the other writers
UploadNext ==
    \/ \E k \in WrittenKeys : PutObject(k)
    \/ \E j \in MinioJobs, c \in UploadCalls : MinioUpload(j, c[1], c[2], c[3])
    \/ MinioTick

----------------------------------------------------------------------------
(* The presign client of one MinioArtifactsStorage (infra/artifacts/minio.py) *)

\* the coroutines that call _get_presign_client on the one storage instance
\* (get_download_link requests, ensure_ready), on one event loop
Callers == {"c1", "c2", "c3"}

\* region lookups started on the instance, counted up to this bound
MaxLookups == 3

\* __init__: no presign client, the lock free; `lookups` counts the
\* _get_region calls started, `built` the Minio(...) presign clients built;
\* a client is named by the number of the build that made it
NoPresign == [client |-> None, lock |-> None, waiters |-> << >>,
              pc |-> [c \in Callers |-> "idle"],
              got |-> [c \in Callers |-> None],
              lookups |-> 0, built |-> 0]

\* no lock at all around the body of _get_presign_client
_presign_lock_absent(p, c) == TRUE

\* asyncio.Lock.acquire returns at once for c: the lock is free and no
\* earlier waiter is queued before c
_presign_lock_free(p, c) ==
    /\ p.lock = None
    /\ p.waiters = << >> \/ Head(p.waiters) = c

\* the body of _get_presign_client entered by c with the lock held: the
\* client that is there is returned and the lock released, otherwise
\* _get_region is started in a thread and c waits for it holding the lock
_get_presign_client_enter(p, c) ==
    IF p.client # None
    THEN [p EXCEPT !.pc[c] = "done", !.got[c] = p.client]
    ELSE [p EXCEPT !.pc[c] = "lookup", !.lock = Some(c),
                   !.lookups = p.lookups + 1]

PresignFrame ==
    UNCHANGED <<storeVars, subVars, arqVars, posix, execVars, bucket, apiVars,
                pathVars, objects, art, req_arg, local>>

\* c calls _get_presign_client: `async with self._presign_lock`
PresignCall(c) ==
    /\ presign.pc[c] = "idle"
    /\ presign.lookups < MaxLookups
    /\ presign' = IF _presign_lock_free(presign, c)
                  THEN _get_presign_client_enter(presign, c)
                  ELSE [presign EXCEPT !.pc[c] = "waiting",
                                       !.waiters = Append(presign.waiters, c)]
    /\ PresignFrame

\* the lock was released and c, first of the waiters, gets it
PresignResume(c) ==
    /\ presign.pc[c] = "waiting"
    /\ _presign_lock_free(presign, c)
    /\ presign' = _get_presign_client_enter(
                      [presign EXCEPT !.waiters = SelectSeq(presign.waiters,
                                                    LAMBDA w : w # c)], c)
    /\ PresignFrame

\* _get_region returns for c: with a region the client is built, stored and
\* returned; an S3Error becomes ArtifactsStorageError and nothing is stored;
\* the lock is released on the way out
PresignLookupReturns(c, ok) ==
    /\ presign.pc[c] = "lookup"
    /\ presign' =
          IF ok
          THEN [presign EXCEPT !.client = Some(presign.built + 1),
                               !.built = presign.built + 1,
                               !.got[c] = Some(presign.built + 1),
                               !.pc[c] = "done",
                               !.lock = IF presign.lock = Some(c) THEN None
                                        ELSE presign.lock]
          ELSE [presign EXCEPT !.pc[c] = "raised",
                               !.lock = IF presign.lock = Some(c) THEN None
                                        ELSE presign.lock]
    /\ PresignFrame

\* the task of c is cancelled while it awaits the lookup: CancelledError
\* leaves the `async with`, the lock is released, nothing is stored
PresignCancelled(c) ==
    /\ presign.pc[c] = "lookup"
    /\ presign' = [presign EXCEPT !.pc[c] = "raised",
                                  !.lock = IF presign.lock = Some(c) THEN None
                                           ELSE presign.lock]
    /\ PresignFrame

\* the call of c is over; c may call again
PresignReturn(c) ==
    /\ presign.pc[c] \in {"done", "raised"}
    /\ presign' = [presign EXCEPT !.pc[c] = "idle", !.got[c] = None]
    /\ PresignFrame

PresignNext ==
    \/ \E c \in Callers : PresignCall(c)
    \/ \E c \in Callers : PresignResume(c)
    \/ \E c \in Callers, ok \in BOOLEAN : PresignLookupReturns(c, ok)
    \/ \E c \in Callers : PresignCancelled(c)
    \/ \E c \in Callers : PresignReturn(c)

----------------------------------------------------------------------------
(* The artifacts root on disk and the startup sweep (worker_settings.py) *)

\* the job directories that come and go directly under the artifacts root
SweepEntries == {"j1", "j2"}

\* settings.artifacts_local_ttl_seconds (ge=1), in ticks
artifacts_local_ttl_seconds == 1

\* how root.iterdir() of the sweep goes
ListFaults == {"none", "FileNotFoundError", "PermissionError"}

\* the entries whose stat, or whose removal, raises during one sweep
SweepFails == {{}, {"j1"}}

\* what the last step was when it was a sweep: the entries that were at
\* least the TTL old, and how the listing, the stats and the removals went
NoSweep == [ran |-> FALSE, old |-> {}, list_fault |-> "none",
            stat_fail |-> {}, del_fail |-> {}]

\* an entry is at least ttl_s old at time t: not (now - st_mtime < ttl_s)
OldEnough(mtime, e, t, ttl_s) == mtime[e] # None /\ ~(t < mtime[e][1] + ttl_s)

\* an empty artifacts root; `mtime` is the st_mtime of each entry (None when
\* the entry does not exist), `running` the jobs whose executor invocation
\* is between its engine call and its cleanup step, `sweep` the last sweep
NoLocal == [mtime |-> [e \in SweepEntries |-> None], running |-> {},
            sweep |-> NoSweep]

\* a sweep that also removes the entries younger than the TTL
_cleanup_expired_local_artifacts_all(mtime, t, ttl_s, list_fault, stat_fail, del_fail) ==
    [e \in SweepEntries |-> None]

\* _cleanup_expired_local_artifacts at time t: nothing when the TTL is below
\* 1 or iterdir raises; an entry whose stat raises is passed over, one with
\* now - st_mtime < ttl_s is kept, the others are removed (rmtree or unlink)
\* unless the removal raises (`del_fail`), which is logged and passed over
_cleanup_expired_local_artifacts(mtime, t, ttl_s, list_fault, stat_fail, del_fail) ==
    IF ttl_s < 1 \/ list_fault # "none"
    THEN mtime
    ELSE [e \in SweepEntries |->
            IF mtime[e] = None \/ e \in stat_fail THEN mtime[e]
            ELSE IF ~OldEnough(mtime, e, t, ttl_s) THEN mtime[e]
            ELSE IF e \in del_fail THEN mtime[e]
            ELSE None]

LocalFrame ==
    UNCHANGED <<storeVars, subVars, arqVars, posix, execVars, bucket, apiVars,
                pathVars, objects, art, req_arg, presign>>

\* LlamatorRunner.run for job e begins: artifacts_root.mkdir(exist_ok=True)
LocalMkdir(e) ==
    /\ e \notin local.running
    /\ local.mtime[e] = None
    /\ local' = [local EXCEPT !.mtime[e] = Some(now),
                              !.running = local.running \cup {e},
                              !.sweep = NoSweep]
    /\ LocalFrame

\* the engine of job e adds a file directly in the job directory
LocalWrite(e) ==
    /\ e \in local.running
    /\ local.mtime[e] # None
    /\ local.mtime[e] # Some(now)
    /\ local' = [local EXCEPT !.mtime[e] = Some(now), !.sweep = NoSweep]
    /\ LocalFrame

\* the invocation for job e ends with cleanup_local(uploaded): the directory
\* is removed after an upload that succeeded and stays otherwise
LocalCleanup(e, uploaded) ==
    /\ e \in local.running
    /\ local' = [local EXCEPT !.mtime[e] = IF uploaded THEN None
                                           ELSE local.mtime[e],
                              !.running = local.running \ {e},
                              !.sweep = NoSweep]
    /\ LocalFrame

\* worker_startup of a worker process on the same artifacts root: when the
\* Redis ping and ensure_ready went through (`ready`), the sweep runs
WorkerStartup(ready, list_fault, stat_fail, del_fail) ==
    /\ local' =
          IF ready
          THEN [local EXCEPT
                  !.mtime = _cleanup_expired_local_artifacts(
                                local.mtime, now, artifacts_local_ttl_seconds,
                                list_fault, stat_fail, del_fail),
                  !.sweep = [ran |-> TRUE,
                             old |-> {e \in SweepEntries :
                                        OldEnough(local.mtime, e, now,
                                                  artifacts_local_ttl_seconds)},
                             list_fault |-> list_fault,
                             stat_fail |-> stat_fail, del_fail |-> del_fail]]
          ELSE [local EXCEPT !.sweep = NoSweep]
    /\ LocalFrame

\* time passes on the host
LocalTick ==
    /\ now < MaxTime
    /\ now' = now + 1
    /\ local' = [local EXCEPT !.sweep = NoSweep]
    /\ UNCHANGED <<store, last, subVars, arqVars, posix, execVars, bucket,
                   apiVars, pathVars, objects, art, req_arg, presign>>

SweepNext ==
    \/ \E e \in SweepEntries : LocalMkdir(e)
    \/ \E e \in SweepEntries : LocalWrite(e)
    \/ \E e \in SweepEntries, uploaded \in BOOLEAN : LocalCleanup(e, uploaded)
    \/ \E ready \in BOOLEAN, list_fault \in ListFaults,
          stat_fail \in SweepFails, del_fail \in SweepFails :
            WorkerStartup(ready, list_fault, stat_fail, del_fail)
    \/ LocalTick

----------------------------------------------------------------------------
(* Worker-side helpers (worker_settings.py) *)

artifacts_upload_max_retries == 3
artifacts_upload_retry_delay_seconds == 1

max_tries_retrying == 1 + 1
\* a worker configured to take a task up to three times
max_tries_three == 1 + 2
max_tries == 1

Max(a, b) == IF a >= b THEN a ELSE b

\* what the engine call can hand back: a raw value, or an exception
EngineOutcomes ==
    {[kind |-> "return", shape |-> "dict", value |-> a, type |-> "", msg |-> ""]
        : a \in Aggregates}
    \cup {[kind |-> "return", shape |-> "not_dict", value |-> {}, type |-> "", msg |-> ""]}
    \cup {[kind |-> "raise", shape |-> "", value |-> {}, type |-> "RuntimeError", msg |-> m]
        : m \in Messages}

\* _validate_start_testing_result: [raised, type, msg, value]
_validate_start_testing_result(out) ==
    IF out.shape # "dict"
    THEN [raised |-> TRUE, type |-> "ValueError",
          msg |-> "start_testing result must be an object.", value |-> {}]
    ELSE [raised |-> FALSE, type |-> "", msg |-> "", value |-> out.value]

_is_empty_aggregated_result(aggregated) == aggregated = {}

EmptyErrType == "EmptyAggregatedResultError"
EmptyErrMsg  == "No tests were executed; aggregated results are empty."

NoLocals == [path |-> "none", lifecycle |-> FALSE, uploaded |-> FALSE,
             agg |-> {}, exc_type |-> "", exc_msg |-> "",
             ending |-> "none"]

NoHist == [created |-> 0, enqueued |-> 0, started |-> 0, set_running |-> FALSE,
           engine |-> "none", outcome |-> "none", trace |-> << >>,
           any_ok |-> FALSE, first_ok_at |-> 0, fail_after_ok |-> FALSE,
           uploads |-> << >>]

Log(h, step) == [h EXCEPT !.trace = Append(@, step)]

----------------------------------------------------------------------------
(* Submission: TestRunService.submit (domain/services.py) *)

Fresh(j) == subPc[j] = "none"

\* a variant of submit that enqueues the task before the record is created
SubmitCreate_enqueue_first(j, u) ==
    /\ Fresh(j)
    /\ queue' = queue \cup {j}
    /\ subPc' = [subPc EXCEPT ![j] = "created"]
    /\ payload' = [payload EXCEPT ![j] =
                       _merge_run_config(j, UserCfg(u), posix).run_config]
    /\ hist' = [hist EXCEPT ![j].enqueued = @ + 1]
    /\ UNCHANGED <<apiVars, pathVars, compVars, bucket>>
    /\ UNCHANGED <<store, now, last, resp, job_try, posix, disk, pc, ex>>

\* uuid4().hex, _merge_run_config, _redact_request, store.create
SubmitCreate(j, u) ==
    /\ Fresh(j)
    /\ ~_validate_artifacts_path(UserCfg(u).artifacts_path)
    /\ ~_merge_run_config(j, UserCfg(u), posix).raised
    /\ LET r == JobStoreCreate(store, j, Redacted(j), now)
       IN  /\ store' = r.store
           /\ subPc' = [subPc EXCEPT ![j] = "created"]
           /\ payload' = [payload EXCEPT ![j] =
                              _merge_run_config(j, UserCfg(u), posix).run_config]
           /\ hist' = [hist EXCEPT ![j].created = @ + 1]
    /\ UNCHANGED <<apiVars, pathVars, compVars, bucket>>
    /\ UNCHANGED <<now, last, resp, queue, job_try, posix, disk, pc, ex>>

\* arq.enqueue_job("run_llamator_job", payload, _job_id=job_id): a job id
\* already known to ARQ is not enqueued again
ArqEnqueue(q, job_id) ==
    IF job_try[job_id] > 0 \/ job_id \in q THEN q ELSE q \cup {job_id}

\* enqueue_job, then return SubmitResult(job_id, _utcnow(), QUEUED)
SubmitEnqueue(j) ==
    /\ subPc[j] = "created"
    /\ queue' = ArqEnqueue(queue, j)
    /\ hist' = [hist EXCEPT ![j].enqueued = @ + 1]
    /\ subPc' = [subPc EXCEPT ![j] = "returned"]
    /\ resp' = [resp EXCEPT ![j] =
                    Some([job_id |-> j, created_at |-> now, status |-> QUEUED])]
    /\ UNCHANGED <<apiVars, pathVars, compVars, bucket>>
    /\ UNCHANGED <<store, now, last, job_try, payload, posix, disk, pc, ex>>

\* enqueue_job raises (Redis unreachable): submit raises, the record stays
SubmitEnqueueFails(j) ==
    /\ subPc[j] = "created"
    /\ subPc' = [subPc EXCEPT ![j] = "enqueue_failed"]
    /\ UNCHANGED <<apiVars, pathVars, compVars, bucket>>
    /\ UNCHANGED <<store, now, last, resp, queue, job_try, payload, posix,
                   disk, pc, ex, hist>>

----------------------------------------------------------------------------
(* Execution: run_llamator_job / _JobExecutor.execute (worker_settings.py) *)

\* the finally block: cleanup_local(uploaded) awaits rmtree only when uploaded
Finally(j, locals, h, how) ==
    IF locals.lifecycle /\ locals.uploaded
    THEN /\ pc' = [pc EXCEPT ![j] = "cleanup"]
         /\ ex' = [ex EXCEPT ![j] = [locals EXCEPT !.ending = how]]
         /\ hist' = [hist EXCEPT ![j] = h]
    ELSE /\ pc' = [pc EXCEPT ![j] = "done"]
         /\ ex' = [ex EXCEPT ![j] = [locals EXCEPT !.ending = how]]
         /\ hist' = [hist EXCEPT ![j] = [h EXCEPT !.outcome = how]]

\* a variant of the except handler that goes straight to set_error
Except_without_upload(j, locals, h, type, msg) ==
    /\ pc' = [pc EXCEPT ![j] = "persist"]
    /\ ex' = [ex EXCEPT ![j] = [locals EXCEPT !.path = "exc", !.exc_type = type,
                                              !.exc_msg = msg]]
    /\ hist' = [hist EXCEPT ![j] = h]

\* the except handler: upload when the lifecycle exists, then set_error
Except(j, locals, h, type, msg) ==
    LET l2 == [locals EXCEPT !.path = "exc", !.exc_type = type, !.exc_msg = msg]
    IN  IF locals.lifecycle
        THEN /\ pc' = [pc EXCEPT ![j] = "upload"]
             /\ ex' = [ex EXCEPT ![j] = l2]
             /\ hist' = [hist EXCEPT ![j] = h]
        ELSE /\ pc' = [pc EXCEPT ![j] = "persist"]
             /\ ex' = [ex EXCEPT ![j] = l2]
             /\ hist' = [hist EXCEPT ![j] = h]

\* A worker takes the task. ARQ counts the try and refuses a job past
\* max_tries; otherwise execute() starts: update_status(RUNNING), then the
\* inputs are resolved and the engine call is handed to a thread.
WorkerRunJob(j) ==
    /\ j \in queue
    /\ pc[j] \in {"idle", "done"}
    /\ queue' = queue \ {j}
    /\ job_try' = [job_try EXCEPT ![j] = @ + 1]
    /\ IF job_try[j] + 1 > max_tries
       THEN UNCHANGED <<store, disk, pc, ex, hist>>
       ELSE LET r  == JobStoreUpdateStatus(store, j, RUNNING, now)
                h1 == [hist[j] EXCEPT !.started = @ + 1]
                h2 == Log([h1 EXCEPT !.set_running = TRUE], "running")
                in == ResolveInputs(j, payload[j])
            IN  IF r.raised
                THEN /\ pc' = [pc EXCEPT ![j] = "done"]
                     /\ ex' = [ex EXCEPT ![j] = NoLocals]
                     /\ hist' = [hist EXCEPT ![j] = [h1 EXCEPT !.outcome = "raised"]]
                     /\ UNCHANGED <<store, disk>>
                ELSE /\ store' = r.store
                     /\ IF in.raised
                        THEN /\ Except(j, NoLocals, h2, in.type,
                                       "artifacts_path must be a safe relative path.")
                             /\ UNCHANGED disk
                        ELSE /\ pc' = [pc EXCEPT ![j] = "engine"]
                             /\ ex' = [ex EXCEPT ![j] =
                                          [NoLocals EXCEPT !.lifecycle = TRUE]]
                             /\ hist' = [hist EXCEPT ![j] = h2]
                             /\ disk' = disk \cup {j}
    /\ UNCHANGED <<apiVars, pathVars, compVars, bucket>>
    /\ UNCHANGED <<now, last, subPc, resp, payload, posix>>

EngineKind(out) ==
    IF out.kind = "raise" THEN "raised"
    ELSE IF out.shape # "dict" THEN "invalid"
    ELSE IF out.value = {} THEN "empty" ELSE "nonempty"

\* asyncio.to_thread(runner.run) completes; the result is validated and
\* classified; every branch goes on to lifecycle.upload
EngineReturn(j, out) ==
    /\ pc[j] = "engine"
    /\ LET h == Log([hist[j] EXCEPT !.engine = EngineKind(out)], "engine")
           v == _validate_start_testing_result(out)
       IN  IF out.kind = "raise"
           THEN Except(j, ex[j], h, out.type, out.msg)
           ELSE IF v.raised
           THEN Except(j, ex[j], h, v.type, v.msg)
           ELSE /\ pc' = [pc EXCEPT ![j] = "upload"]
                /\ ex' = [ex EXCEPT ![j] =
                            [@ EXCEPT !.agg = v.value,
                                      !.path = IF _is_empty_aggregated_result(v.value)
                                               THEN "empty" ELSE "ok"]]
                /\ hist' = [hist EXCEPT ![j] = h]
    /\ UNCHANGED <<apiVars, pathVars, compVars, bucket>>
    /\ UNCHANGED <<storeVars, subVars, arqVars, posix, disk>>

\* _ArtifactsLifecycle.upload: the loop over attempts 1..max(1, max_retries).
\* The backend fails the first `fails` attempts of this call; the call
\* returns True at the first attempt that succeeds, False when none does.
upload_gives_up_early(fails) ==
    LET attempts == Max(1, artifacts_upload_max_retries)
    IN  fails + 1 < attempts

upload(fails) ==
    LET attempts == Max(1, artifacts_upload_max_retries)
    IN  fails < attempts

\* the loop of _ArtifactsLifecycle.upload from `attempt` on, as the sequence
\* of what it does: "call" upload_job_artifacts, which ends "ok" (return
\* True) or "fail"; "sleep" the retry delay after a failure that is not the
\* last attempt. The backend fails the first `fails` attempts.
RECURSIVE UploadLoop(_, _, _)
UploadLoop(attempt, fails, events) ==
    LET attempts == Max(1, artifacts_upload_max_retries)
    IN  IF attempt > attempts THEN events
        ELSE IF attempt > fails THEN events \o <<"call", "ok">>
        ELSE IF attempt < attempts /\ artifacts_upload_retry_delay_seconds > 0
        THEN UploadLoop(attempt + 1, fails, events \o <<"call", "fail", "sleep">>)
        ELSE UploadLoop(attempt + 1, fails, events \o <<"call", "fail">>)

UploadStep(j, fails) ==
    /\ pc[j] = "upload"
    /\ LET ok == upload(fails)
           within == fails < Max(1, artifacts_upload_max_retries)
           h0 == Log(hist[j], "upload")
           h  == [h0 EXCEPT !.any_ok = @ \/ within,
                            !.first_ok_at = IF @ = 0 /\ within THEN fails + 1 ELSE @,
                            !.fail_after_ok = @ \/ (h0.any_ok /\ fails > 0),
                            !.uploads = UploadLoop(1, fails, @)]
       IN  /\ hist' = [hist EXCEPT ![j] = h]
           /\ ex' = [ex EXCEPT ![j].uploaded = ok]
           /\ pc' = [pc EXCEPT ![j] = "persist"]
           \* a successful attempt clears the job's prefix and puts the archive;
           \* a failed one may already have cleared the prefix
           /\ bucket' \in IF ok THEN {bucket \cup {j}} ELSE {bucket, bucket \ {j}}
    /\ UNCHANGED <<apiVars, pathVars, compVars>>
    /\ UNCHANGED <<storeVars, subVars, arqVars, posix, disk>>

\* a variant of the executor that writes the outcome first and uploads after
Persist_then_upload(j) ==
    /\ pc[j] = "persist"
    /\ "persist" \notin {hist[j].trace[i] : i \in DOMAIN hist[j].trace}
    /\ LET l == ex[j]
           r == IF l.path = "ok"
                THEN JobStoreSetResult(store, j, l.agg, now)
                ELSE JobStoreSetError(store, j, l.exc_type, l.exc_msg, now)
       IN  /\ store' = r.store
           /\ hist' = [hist EXCEPT ![j] = Log(@, "persist")]
           /\ pc' = [pc EXCEPT ![j] = "upload"]
    /\ UNCHANGED <<apiVars, pathVars, compVars, bucket>>
    /\ UNCHANGED <<now, last, subVars, arqVars, posix, disk, ex>>

\* The write of the outcome: set_result on the success path, set_error on
\* the empty-result path and in the except handler
Persist(j) ==
    /\ pc[j] = "persist"
    /\ LET l == ex[j]
           r == IF l.path = "ok"
                THEN JobStoreSetResult(store, j, l.agg, now)
                ELSE IF l.path = "empty"
                THEN JobStoreSetError(store, j, EmptyErrType, EmptyErrMsg, now)
                ELSE JobStoreSetError(store, j, l.exc_type, l.exc_msg, now)
       IN  /\ store' = r.store
           /\ IF r.raised
              THEN IF l.path = "exc"
                   THEN Finally(j, l, hist[j], "raised")
                   ELSE Except(j, l, hist[j], "KeyError", "'Job not found: " \o j \o "'")
              ELSE Finally(j, l, Log(hist[j], "persist"),
                           IF l.path = "exc" THEN "raised" ELSE "returned")
    /\ UNCHANGED <<apiVars, pathVars, compVars, bucket>>
    /\ UNCHANGED <<now, last, subVars, arqVars, posix, disk>>

\* cleanup_local(uploaded=True): shutil.rmtree(local_job_root)
Cleanup(j) ==
    /\ pc[j] = "cleanup"
    /\ disk' = disk \ {j}
    /\ pc' = [pc EXCEPT ![j] = "done"]
    /\ hist' = [hist EXCEPT ![j] = [Log(@, "cleanup") EXCEPT !.outcome = ex[j].ending]]
    /\ UNCHANGED <<apiVars, pathVars, compVars, bucket>>
    /\ UNCHANGED <<storeVars, subVars, arqVars, posix, ex>>

\* CancelledError delivered at the await the coroutine is suspended in: it
\* is no Exception, so the except handler is skipped and only the finally
\* block runs
Cancelled(j) ==
    /\ pc[j] \in {"engine", "upload", "persist"}
    /\ \E failed \in BOOLEAN :
          /\ failed => pc[j] = "upload"
          /\ Finally(j, ex[j],
                     [hist[j] EXCEPT !.fail_after_ok = @ \/ (hist[j].any_ok /\ failed)],
                     "cancelled")
    /\ UNCHANGED <<apiVars, pathVars, compVars, bucket>>
    /\ UNCHANGED <<storeVars, subVars, job_try, payload, posix, disk>>

\* ARQ cancels the coroutine at job_timeout and records the job as failed
JobTimeout(j) ==
    /\ Cancelled(j)
    /\ UNCHANGED queue

\* The worker shuts down: ARQ cancels the running job and leaves it queued
WorkerShutdown(j) ==
    /\ Cancelled(j)
    /\ queue' = queue \cup {j}

----------------------------------------------------------------------------
(* HTTP API (api/http_routes.py) *)

NoResp == [op |-> "none", job |-> "", path |-> NoRaw, code |-> 0,
           detail |-> "", backend |-> FALSE, body |-> None]
NoWait == [pc |-> "none", deadline |-> 0, wake |-> 0, info |-> None, out |-> None]

\* job ids a caller may name: the issued ones and one that never was
ApiJobs == Jobs \cup {"unknown"}

\* paths asked for: "../etc/passwd" and the archive
ArchivePath == [abs |-> FALSE, segs |-> <<"artifacts.zip">>]
DownloadPaths == {[abs |-> FALSE, segs |-> <<"..", "etc", "passwd">>], ArchivePath}

\* how the object storage answers while a request is served
BackendAnswers == {"ok", "expired", "error"}

ApiFrame ==
    UNCHANGED <<storeVars, subVars, arqVars, posix, execVars, wait, pathVars, compVars>>

\* a variant of get_run that writes a record for the id it was asked about
GetRun_creating(j) ==
    /\ http = NoResp
    /\ LET r == JobStoreGet(store, j)
       IN  /\ http' = [NoResp EXCEPT !.op = "get_run", !.job = j,
                           !.code = IF r.raised THEN 404 ELSE 200]
           /\ store' = IF r.raised
                       THEN JobStoreCreate(store, j, Redacted(j), now).store
                       ELSE store
    /\ UNCHANGED <<now, last, subVars, arqVars, posix, execVars, wait, pathVars, compVars,
                   bucket>>

\* GET /v1/tests/runs/{job_id}
GetRun(j) ==
    /\ http = NoResp
    /\ LET r == JobStoreGet(store, j)
       IN  http' = IF r.raised
                   THEN [NoResp EXCEPT !.op = "get_run", !.job = j, !.code = 404,
                                       !.detail = "Not found"]
                   ELSE [NoResp EXCEPT !.op = "get_run", !.job = j, !.code = 200]
    /\ UNCHANGED bucket
    /\ ApiFrame

\* MinioArtifactsStorage.get_download_link: [raised, backend, bucket];
\* the key is built, and checked, before the storage is asked anything
get_download_link(job_id, rel_path, answer) ==
    LET key == _object_key(job_id, rel_path)
    IN  IF key.raised
        THEN [raised |-> "ValueError", backend |-> FALSE, bucket |-> bucket]
        ELSE IF answer = "error"
        THEN [raised |-> "ArtifactsStorageError", backend |-> TRUE, bucket |-> bucket]
        ELSE IF job_id \notin bucket \/ rel_path # ArchivePath
        THEN [raised |-> "FileNotFoundError", backend |-> TRUE, bucket |-> bucket]
        ELSE IF answer = "expired"
        THEN [raised |-> "FileNotFoundError", backend |-> TRUE,
              bucket |-> bucket \ {job_id}]
        ELSE [raised |-> "none", backend |-> TRUE, bucket |-> bucket]

\* GET /v1/tests/runs/{job_id}/artifacts/{path}
DownloadArtifact(j, p, answer) ==
    /\ http = NoResp
    /\ LET r    == JobStoreGet(store, j)
           link == get_download_link(j, p, answer)
           base == [NoResp EXCEPT !.op = "download", !.job = j, !.path = p]
       IN  IF r.raised
           THEN /\ http' = [base EXCEPT !.code = 404, !.detail = "Not found"]
                /\ UNCHANGED bucket
           ELSE /\ bucket' = link.bucket
                /\ http' =
                      CASE link.raised = "ValueError" ->
                              [base EXCEPT !.code = 400, !.detail = "Invalid path"]
                        [] link.raised = "FileNotFoundError" ->
                              [base EXCEPT !.code = 404, !.detail = "File not found",
                                           !.backend = link.backend]
                        [] link.raised = "ArtifactsStorageError" ->
                              [base EXCEPT !.code = 502,
                                           !.detail = "Artifacts backend error",
                                           !.backend = link.backend]
                        [] OTHER -> [base EXCEPT !.code = 200,
                                                 !.backend = link.backend]
    /\ ApiFrame

\* MinioArtifactsStorage.list_files at the level of archives:
\* [raised, files, bucket]; an archive past its retention is removed and left
\* out, a failure of list_objects is an ArtifactsStorageError
list_files(job_id, answer) ==
    IF answer = "error"
    THEN [raised |-> "ArtifactsStorageError", files |-> << >>, bucket |-> bucket]
    ELSE IF job_id \notin bucket
    THEN [raised |-> "none", files |-> << >>, bucket |-> bucket]
    ELSE IF answer = "expired"
    THEN [raised |-> "none", files |-> << >>, bucket |-> bucket \ {job_id}]
    ELSE [raised |-> "none", files |-> <<ArchivePath.segs>>, bucket |-> bucket]

\* a variant of list_artifacts that answers a backend failure with no files
ListArtifacts_swallowing(j, answer) ==
    /\ http = NoResp
    /\ LET r    == JobStoreGet(store, j)
           ls   == list_files(j, answer)
           base == [NoResp EXCEPT !.op = "list", !.job = j]
       IN  IF r.raised
           THEN /\ http' = [base EXCEPT !.code = 404, !.detail = "Not found"]
                /\ UNCHANGED bucket
           ELSE /\ bucket' = ls.bucket
                /\ http' = [base EXCEPT !.code = 200, !.backend = TRUE,
                               !.body = Some([job_id |-> j, files |-> ls.files])]
    /\ ApiFrame

\* GET /v1/tests/runs/{job_id}/artifacts
ListArtifacts(j, answer) ==
    /\ http = NoResp
    /\ LET r    == JobStoreGet(store, j)
           ls   == list_files(j, answer)
           base == [NoResp EXCEPT !.op = "list", !.job = j]
       IN  IF r.raised
           THEN /\ http' = [base EXCEPT !.code = 404, !.detail = "Not found"]
                /\ UNCHANGED bucket
           ELSE /\ bucket' = ls.bucket
                /\ http' = IF ls.raised = "ArtifactsStorageError"
                           THEN [base EXCEPT !.code = 502, !.backend = TRUE,
                                             !.detail = "Artifacts backend error"]
                           ELSE [base EXCEPT !.code = 200, !.backend = TRUE,
                                    !.body = Some([job_id |-> j, files |-> ls.files])]
    /\ ApiFrame

\* a variant of create_run that creates the record before it validates
CreateRunRejected_after_create(dup, u) ==
    /\ http = NoResp
    /\ dup \/ _validate_artifacts_path(UserCfg(u).artifacts_path)
    /\ \E j \in Jobs :
          /\ Fresh(j)
          /\ store' = JobStoreCreate(store, j, Redacted(j), now).store
    /\ http' = [NoResp EXCEPT !.op = "create_run", !.code = 400,
                              !.detail = "Duplicate parameter name"]
    /\ UNCHANGED <<now, last, subVars, arqVars, posix, execVars, wait, pathVars, compVars,
                   bucket>>

\* POST /v1/tests/runs with a request that does not validate: an unsafe
\* run_config.artifacts_path fails the parsing of the body (422), a duplicate
\* parameter name fails validate_test_specs (400); submit is not called
CreateRunRejected(dup, u) ==
    /\ http = NoResp
    /\ dup \/ _validate_artifacts_path(UserCfg(u).artifacts_path)
    /\ http' = IF _validate_artifacts_path(UserCfg(u).artifacts_path)
               THEN [NoResp EXCEPT !.op = "create_run", !.code = 422,
                        !.detail = "artifacts_path must be a safe relative path."]
               ELSE [NoResp EXCEPT !.op = "create_run", !.code = 400,
                        !.detail = "Duplicate parameter name"]
    /\ UNCHANGED bucket
    /\ ApiFrame

\* the caller has read the response
HttpDone ==
    /\ http # NoResp
    /\ http' = NoResp
    /\ UNCHANGED bucket
    /\ ApiFrame

\* requests are served one at a time
ApiNext ==
    \/ \E j \in ApiJobs : GetRun(j)
    \/ \E j \in ApiJobs, p \in DownloadPaths, a \in BackendAnswers :
            DownloadArtifact(j, p, a)
    \/ \E j \in ApiJobs, a \in BackendAnswers : ListArtifacts(j, a)
    \/ \E dup \in BOOLEAN, u \in UserPaths : CreateRunRejected(dup, u)
    \/ HttpDone


----------------------------------------------------------------------------
(* Tool call: create_llamator_run and its wait loop (api/mcp_server.py) *)

Min(a, b) == IF a <= b THEN a ELSE b

_is_terminal_status(status) == status \in {SUCCEEDED, FAILED}

\* what the tool call gives its caller: a result, or the exception it raised
NoOut == [raised |-> "none", job_id |-> "", aggregated |-> EmptyAgg,
          artifacts_download_url |-> None, error_notice |-> None]

\* _build_error_notice(info) of the tool module
mcp_build_error_notice(info) ==
    IF info.error = None
    THEN None
    ELSE IF info.error[1].message # ""
    THEN Some(info.error[1].error_type \o ": " \o info.error[1].message)
    ELSE Some(info.error[1].error_type)

\* _extract_aggregated_or_empty: [raised, aggregated]
_extract_aggregated_or_empty(info) ==
    IF info.status = SUCCEEDED
    THEN IF info.result = None
         THEN [raised |-> "RuntimeError", aggregated |-> EmptyAgg]
         ELSE [raised |-> "none", aggregated |-> info.result[1].aggregated]
    ELSE IF info.status = FAILED
    THEN [raised |-> "none", aggregated |-> EmptyAgg]
    ELSE [raised |-> "ValueError", aggregated |-> EmptyAgg]

\* _try_get_artifacts_download_url: a URL when the archive is there and the
\* storage answers, None on FileNotFoundError, ValueError, ArtifactsStorageError
_try_get_artifacts_download_url(job_id, answer) ==
    IF answer = "ok" /\ job_id \in bucket THEN Some("url:" \o job_id) ELSE None

WaitFrame ==
    UNCHANGED <<storeVars, subVars, arqVars, posix, execVars, bucket, http,
                pathVars, compVars>>

\* _await_job_completion is entered once submit has returned:
\* deadline = loop.time() + timeout_seconds
WaitStart(j) ==
    /\ subPc[j] = "returned"
    /\ wait[j].pc = "none"
    /\ now + WaitTimeout <= MaxTime
    /\ wait' = [wait EXCEPT ![j] = [NoWait EXCEPT !.pc = "poll",
                                                  !.deadline = now + WaitTimeout]]
    /\ WaitFrame

\* a variant of the loop body that gives up at the first non-terminal poll
WaitPoll_no_deadline(j) ==
    /\ wait[j].pc = "poll"
    /\ LET got == JobStoreGet(store, j)
       IN  wait' = [wait EXCEPT ![j] =
              IF got.raised
              THEN [@ EXCEPT !.pc = "ended",
                             !.out = Some([NoOut EXCEPT !.raised = "KeyError"])]
              ELSE IF _is_terminal_status(got.info[1].status)
              THEN [@ EXCEPT !.pc = "completed", !.info = got.info]
              ELSE [@ EXCEPT !.pc = "ended",
                             !.out = Some([NoOut EXCEPT !.raised = "TimeoutError"])]]
    /\ WaitFrame

\* one turn of the loop: store.get (KeyError leaves the loop), return on a
\* terminal status, TimeoutError once now >= deadline, else go to sleep for
\* min(poll_interval_s, max(0, deadline - now))
WaitPoll(j) ==
    /\ wait[j].pc = "poll"
    /\ LET got == JobStoreGet(store, j)
       IN  wait' = [wait EXCEPT ![j] =
              IF got.raised
              THEN [@ EXCEPT !.pc = "ended",
                             !.out = Some([NoOut EXCEPT !.raised = "KeyError"])]
              ELSE IF _is_terminal_status(got.info[1].status)
              THEN [@ EXCEPT !.pc = "completed", !.info = got.info]
              ELSE IF now >= wait[j].deadline
              THEN [@ EXCEPT !.pc = "ended",
                             !.out = Some([NoOut EXCEPT !.raised = "TimeoutError"])]
              ELSE [@ EXCEPT !.pc = "sleep",
                             !.wake = now + Min(PollInterval,
                                                Max(0, wait[j].deadline - now))]]
    /\ WaitFrame

\* asyncio.sleep(sleep_for) returns, no earlier than asked
WaitWake(j) ==
    /\ wait[j].pc = "sleep"
    /\ now >= wait[j].wake
    /\ wait' = [wait EXCEPT ![j].pc = "poll"]
    /\ WaitFrame

\* create_llamator_run after the wait: aggregated, download URL, notice
ToolReturn(j, answer) ==
    /\ wait[j].pc = "completed"
    /\ LET info == wait[j].info[1]
           agg  == _extract_aggregated_or_empty(info)
       IN  wait' = [wait EXCEPT ![j] = [@ EXCEPT !.pc = "ended", !.out =
              IF agg.raised # "none"
              THEN Some([NoOut EXCEPT !.raised = agg.raised])
              ELSE Some([raised |-> "none", job_id |-> j,
                         aggregated |-> agg.aggregated,
                         artifacts_download_url |->
                             _try_get_artifacts_download_url(j, answer),
                         error_notice |->
                             IF info.error_notice # None
                             THEN info.error_notice
                             ELSE mcp_build_error_notice(info)])]]
    /\ WaitFrame

\* another client of the same JobStore writes to the job's record with
\* update_status, set_result or set_error
AnyWriter(j) ==
    /\ \E st \in {JobStoreUpdateStatus(store, j, s, now).store : s \in JobStatus}
            \cup {JobStoreSetResult(store, j, a, now).store : a \in Aggregates}
            \cup {JobStoreSetError(store, j, t, m, now).store :
                      t \in ErrorTypes, m \in Messages} :
          store' = st
    /\ UNCHANGED <<now, last, subVars, arqVars, posix, execVars, bucket,
                   apiVars, pathVars, compVars>>

WaitNext ==
    \/ \E j \in Jobs : WaitStart(j)
    \/ \E j \in Jobs : WaitPoll(j)
    \/ \E j \in Jobs : WaitWake(j)
    \/ \E j \in Jobs, a \in BackendAnswers : ToolReturn(j, a)

----------------------------------------------------------------------------
(* Redaction of a run request before it is stored (domain/services.py) *)

\* no submission looked at yet
NoReqs == << >>

\* API key values; no other field of a request takes one of these values
KeyValues == {"k1", "k2"}
ModelNames == {"m1", "m2"}

\* OpenAIClientConfig: api_key is None or a non-empty string
OpenAIClientConfig(api_key, model) ==
    [kind |-> "openai", api_key |-> api_key, base_url |-> "http://llm/v1",
     model |-> model, temperature |-> None, system_prompts |-> None,
     model_description |-> None]

\* bool(x) of an optional string
bool(x) == x # None /\ x # Some("")

\* a variant of _redact_client that keeps the key next to the flag
_redact_client_keeps_key(cfg) ==
    [kind |-> "openai", base_url |-> cfg.base_url, model |-> cfg.model,
     temperature |-> cfg.temperature, system_prompts |-> cfg.system_prompts,
     model_description |-> cfg.model_description,
     api_key_present |-> bool(cfg.api_key), api_key |-> cfg.api_key]

\* _redact_client
_redact_client(cfg) ==
    [kind |-> "openai", base_url |-> cfg.base_url, model |-> cfg.model,
     temperature |-> cfg.temperature, system_prompts |-> cfg.system_prompts,
     model_description |-> cfg.model_description,
     api_key_present |-> bool(cfg.api_key)]

\* _redact_request
_redact_request(req, attack, judge) ==
    [tested_model |-> _redact_client(req.tested_model),
     attack_model |-> _redact_client(attack),
     judge_model  |-> _redact_client(judge),
     run_config   |-> req.run_config,
     plan |-> [preset_name   |-> req.plan.preset_name,
               num_threads   |-> req.plan.num_threads,
               basic_tests   |-> IF req.plan.basic_tests = None THEN << >>
                                 ELSE req.plan.basic_tests[1],
               custom_tests  |-> IF req.plan.custom_tests = None THEN << >>
                                 ELSE req.plan.custom_tests[1]]]

\* _build_attack_client / _build_judge_client: an empty key of the settings
\* becomes None
_build_attack_client(settings) ==
    OpenAIClientConfig(IF settings.attack_openai_api_key = "" THEN None
                       ELSE Some(settings.attack_openai_api_key),
                       settings.attack_openai_model)
_build_judge_client(settings) ==
    OpenAIClientConfig(IF settings.judge_openai_api_key = "" THEN None
                       ELSE Some(settings.judge_openai_api_key),
                       settings.judge_openai_model)

\* a submission: the request of the caller and the settings of the service
Submissions ==
    {[req |-> [tested_model |-> OpenAIClientConfig(k, m),
               run_config |-> None,
               plan |-> [preset_name |-> Some("all"), num_threads |-> Some(1),
                         basic_tests |-> None, custom_tests |-> None]],
      settings |-> [attack_openai_api_key |-> a, attack_openai_model |-> "m1",
                    judge_openai_api_key |-> g, judge_openai_model |-> "m2"]] :
        k \in {None} \cup {Some(v) : v \in KeyValues}, m \in ModelNames,
        a \in {""} \cup KeyValues, g \in {""} \cup KeyValues}

\* how many submissions are compared
MaxSubmissions == 2

\* TestRunService.submit up to store.create: the attack and judge clients are
\* built from the settings, the request is redacted and the record created.
\* req_arg keeps each submission with the request found in its record. (The
\* payload and the enqueueing that follow are SubmitCreate and SubmitEnqueue;
\* they do not touch the record.)
SubmitRedacted(j, sub) ==
    /\ Len(req_arg) < MaxSubmissions
    /\ LET attack == _build_attack_client(sub.settings)
           judge  == _build_judge_client(sub.settings)
           request_redacted == _redact_request(sub.req, attack, judge)
           r == JobStoreCreate(store, j, request_redacted, now)
       IN  /\ store' = r.store
           /\ last' = Call("create", j, r.raised)
           /\ req_arg' = Append(req_arg,
                  [sub |-> sub,
                   stored |-> JobStoreGet(r.store, j).info[1].request])
    /\ UNCHANGED <<now, subVars, arqVars, posix, execVars, bucket, apiVars,
                   pathVars, objects, art, presign, local>>

\* a new pair of submissions is looked at
RedactReset ==
    /\ Len(req_arg) = MaxSubmissions
    /\ req_arg' = NoReqs
    /\ UNCHANGED <<storeVars, subVars, arqVars, posix, execVars, bucket,
                   apiVars, pathVars, objects, art, presign, local>>

RedactNext ==
    \/ \E j \in Jobs, sub \in Submissions : SubmitRedacted(j, sub)
    \/ RedactReset

----------------------------------------------------------------------------
(* Specifications *)

IdleSystem ==
    /\ subPc = [j \in Jobs |-> "none"]
    /\ resp = [j \in Jobs |-> None]
    /\ queue = {}
    /\ job_try = [j \in Jobs |-> 0]
    /\ payload = [j \in Jobs |-> [artifacts_path |-> None]]
    /\ disk = {}
    /\ pc = [j \in Jobs |-> "idle"]
    /\ ex = [j \in Jobs |-> NoLocals]
    /\ hist = [j \in Jobs |-> NoHist]
    /\ bucket = {}
    /\ http = NoResp
    /\ wait = [j \in Jobs |-> NoWait]
    /\ chk = NoChk
    /\ art = NoArt
    /\ req_arg = NoReqs
    /\ presign = NoPresign
    /\ local = NoLocal

Init ==
    /\ StoreInit
    /\ IdleSystem
    /\ objects = NoObjects
    /\ posix \in BOOLEAN
    /\ path_arg = NoRaw

Next ==
    \/ \E j \in Jobs, u \in UserPaths : SubmitCreate(j, u)
    \/ \E j \in Jobs : SubmitEnqueue(j)
    \/ \E j \in Jobs : SubmitEnqueueFails(j)
    \/ \E j \in Jobs : WorkerRunJob(j)
    \/ \E j \in Jobs, out \in EngineOutcomes : EngineReturn(j, out)
    \/ \E j \in Jobs, fails \in 0..Max(1, artifacts_upload_max_retries) :
            UploadStep(j, fails)
    \/ \E j \in Jobs : Persist(j)
    \/ \E j \in Jobs : Cleanup(j)
    \/ \E j \in Jobs : JobTimeout(j)
    \/ \E j \in Jobs : WorkerShutdown(j)
    \/ Tick

Spec == Init /\ [][Next]_vars

StoreSysInit ==
    /\ StoreInit
    /\ IdleSystem
    /\ objects = NoObjects
    /\ posix = TRUE
    /\ path_arg = NoRaw

SpecStore == StoreSysInit /\ [][StoreNext]_vars

\* the system together with the callers of its HTTP API
NextApi == (http = NoResp /\ Next) \/ ApiNext

SpecApi == Init /\ [][NextApi]_vars

PathsInit ==
    /\ StoreInit
    /\ IdleSystem
    /\ objects = NoObjects
    /\ posix \in BOOLEAN
    /\ path_arg \in RawPaths

SpecPaths == PathsInit /\ [][PathsNext]_vars

\* the system with a worker that takes every queued task, an engine call
\* that returns or raises, uploads that return, and awaited writes that
\* complete
FairSpec ==
    /\ Spec
    /\ \A j \in Jobs :
          /\ WF_vars(SubmitEnqueue(j) \/ SubmitEnqueueFails(j))
          /\ WF_vars(WorkerRunJob(j))
          /\ WF_vars(\E out \in EngineOutcomes : EngineReturn(j, out))
          /\ WF_vars(\E fails \in 0..Max(1, artifacts_upload_max_retries) :
                        UploadStep(j, fails))
          /\ WF_vars(Persist(j))
          /\ WF_vars(Cleanup(j))

\* MinioArtifactsStorage over a bucket that any client writes to; the bucket
\* already holds another job's archive and the directory marker "j1/"
MinioInit ==
    /\ StoreInit
    /\ IdleSystem
    /\ posix = TRUE
    /\ path_arg = NoRaw
    /\ objects = [k \in ObjectKeys |-> IF k \in WrittenKeys THEN None ELSE Some(0)]

SpecMinio == MinioInit /\ [][MinioNext]_vars

\* the redaction applied to any pair of submissions
SpecRedact == StoreSysInit /\ [][RedactNext]_vars

\* the system together with tool calls that wait for their job
NextWait == Next \/ WaitNext

SpecWait == Init /\ [][NextWait]_vars

\* the clock advances and the waiting coroutine is scheduled
FairSpecWait ==
    /\ SpecWait
    /\ WF_vars(Tick)
    /\ \A j \in Jobs : WF_vars(WaitPoll(j)) /\ WF_vars(WaitWake(j))

\* the tool call over a JobStore that any caller writes to, up to the first
\* sleep of the wait loop (the clock stands still; SpecWait follows the loop
\* through its sleeps)
NextTool ==
    \/ \E j \in Jobs, u \in UserPaths : SubmitCreate(j, u)
    \/ \E j \in Jobs : SubmitEnqueue(j)
    \/ \E j \in Jobs : AnyWriter(j)
    \/ \E j \in Jobs : WaitStart(j)
    \/ \E j \in Jobs : WaitPoll(j)
    \/ \E j \in Jobs, a \in BackendAnswers : ToolReturn(j, a)

SpecTool == StoreSysInit /\ [][NextTool]_vars

\* the MinIO bucket under the uploads of the worker
SpecUpload == MinioInit /\ [][UploadNext]_vars

\* job directories under one artifacts root, the executors that own them and
\* the worker processes that start up on that root
SpecSweep == StoreSysInit /\ [][SweepNext]_vars

\* one storage instance and the coroutines that ask it for the presign client
SpecPresign == MinioInit /\ [][PresignNext]_vars

----------------------------------------------------------------------------
(* Properties *)

Steps(j, step) == {i \in DOMAIN hist[j].trace : hist[j].trace[i] = step}
StepsBefore(j, a, b) == \A i \in Steps(j, a), k \in Steps(j, b) : i < k

ExactlyOne(a, b) == (a /\ ~b) \/ (~a /\ b)

\* C1: once a record is Succeeded or Failed, no update_status, set_result
\* or set_error changes its status to a different value.
C1_TerminalImmutable ==
    [][\A j \in StoreJobs :
          ( /\ last'.op \in {"update_status", "set_result", "set_error"}
            /\ Has(j) /\ Terminal(StatusOf(j))
            /\ Has(j)' )
          => StatusOf(j)' = StatusOf(j)]_vars

\* C2: in every state of the store a terminal record has exactly one of
\* result/error set and a non-terminal record has neither.
C2_RecordInvariant ==
    \A j \in StoreJobs :
        Has(j) =>
            LET r == Rec(j)[1]
            IN  /\ Terminal(r.status) => ExactlyOne(r.result # None, r.error # None)
                /\ ~Terminal(r.status) => (r.result = None /\ r.error = None)

\* C3: set_result on an existing record, whatever it held, followed by get
\* returns status Succeeded, the aggregated map passed in, and no error and
\* no error_notice.
C3_SetResultRoundTrip ==
    last.op = "set_result" =>
        /\ last.raised <=> last.before = None
        /\ ~last.raised =>
              LET got == JobStoreGet(store, last.job)
              IN  /\ ~got.raised
                  /\ got.info[1].status = SUCCEEDED
                  /\ got.info[1].result # None
                  /\ got.info[1].result[1].aggregated = last.agg
                  /\ got.info[1].error = None
                  /\ got.info[1].error_notice = None

C3_Witness ==
    /\ last.op = "set_result" /\ ~last.raised
    /\ last.agg = AggTwo
    /\ last.before # None
    /\ last.before[1].status = FAILED
    /\ last.before[1].error_notice = Some("RuntimeError: boom")
    /\ StatusOf(last.job) = SUCCEEDED

\* C4: set_error on an existing record followed by get returns status
\* Failed, error {error_type, message}, and error_notice "type: message"
\* for a non-empty message and "type" for an empty one.
C4_SetErrorRoundTrip ==
    last.op = "set_error" =>
        /\ last.raised <=> last.before = None
        /\ ~last.raised =>
              LET got == JobStoreGet(store, last.job)
              IN  /\ ~got.raised
                  /\ got.info[1].status = FAILED
                  /\ got.info[1].error # None
                  /\ got.info[1].error[1].error_type = last.error_type
                  /\ got.info[1].error[1].message = last.message
                  /\ last.message # "" =>
                        got.info[1].error_notice =
                            Some(last.error_type \o ": " \o last.message)
                  /\ last.message = "" =>
                        got.info[1].error_notice = Some(last.error_type)

C4_Witness ==
    /\ last.op = "set_error" /\ ~last.raised
    /\ last.message = "" /\ last.error_type = "RuntimeError"
    /\ last.before # None /\ last.before[1].status = RUNNING
    /\ Rec(last.job)[1].error_notice = Some("RuntimeError")

C7_EmptyAlwaysFailed ==
    \A j \in Jobs :
        (pc[j] = "done" /\ hist[j].engine = "empty" /\ Has(j)) =>
            /\ StatusOf(j) = FAILED
            /\ Rec(j)[1].error # None
            /\ Rec(j)[1].error[1].error_type = EmptyErrType

C10_NoStuckRunning ==
    \A j \in Jobs :
        (pc[j] = "done" /\ hist[j].set_running /\ Has(j)) =>
            Terminal(StatusOf(j))

Unsafe(p) ==
    \/ p.abs
    \/ \E i \in DOMAIN p.segs : p.segs[i] = ".."
    \/ \A i \in DOMAIN p.segs : p.segs[i] \in {"", "."}

\* C11: a path string that is absolute, has a ".." piece anywhere, or
\* normalizes to "" or "." is rejected by the artifact store's check and by
\* the executor's check.
C11_UnsafeRejected ==
    (chk.op \in {"object_key", "safe_relpath"} /\ Unsafe(path_arg)) => chk.raised

C11_Witness ==
    /\ chk.op = "safe_relpath"
    /\ path_arg = [abs |-> FALSE, segs |-> <<"a", "..", "..">>]
    /\ chk.raised

StrictlyUnder(root, d) == IsPrefix(root, d) /\ Len(d) > Len(root)

\* C12 as stated: whatever a check accepts resolves to a strict descendant of
\* its root, never the root itself; a user-supplied artifacts_path resolves
\* strictly inside the job's artifact root or fails with a validation error.
C12_StrictDescendant ==
    (chk.op \in {"object_key", "resolve_inputs", "submit_dir", "submit_resolve"}
        /\ ~chk.raised)
    => StrictlyUnder(chk.root, chk.dir)

\* C12 amended: a path accepted by the store's check or by the executor's
\* check resolves to a strict descendant of its root; a user-supplied
\* artifacts_path that the request validation accepts resolves, at submit
\* and in the executor, to the job's artifact root itself (for ".") or to a
\* descendant of it, never outside it, or fails with a validation error.
C12_Containment ==
    /\ (chk.op \in {"object_key", "resolve_inputs"} /\ ~chk.raised)
          => StrictlyUnder(chk.root, chk.dir)
    /\ (chk.op \in {"submit_dir", "submit_resolve"} /\ ~chk.raised)
          => /\ IsPrefix(chk.root, chk.dir)
             /\ ~HasDotDot(chk.dir)
             /\ (chk.dir = chk.root <=> Normalize(path_arg.segs) = << >>)
    /\ (chk.op \in {"resolve_inputs", "submit_dir", "submit_resolve"}
          /\ (path_arg.abs \/ HasDotDot(path_arg.segs)))
          => chk.raised

C12_Witness ==
    /\ chk.op = "submit_resolve" /\ ~chk.raised
    /\ path_arg = [abs |-> FALSE, segs |-> <<".">>]
    /\ chk.dir = chk.root

\* C13: a download request for an unsafe path, under any job id, with or
\* without a record, is answered with a 400 validation error and the object
\* storage is not contacted.
C13_TraversalRejected ==
    (http.op = "download" /\ Unsafe(http.path)) =>
        (http.code = 400 /\ ~http.backend)

\* C14: a status request for a job id without a record is answered 404 and
\* changes nothing: not the store, not the queue, not the artifact storage.
C14_UnknownJob ==
    [][\A j \in ApiJobs :
          (GetRun(j) /\ ~Has(j)) =>
              /\ http'.code = 404
              /\ UNCHANGED <<store, queue, job_try, payload, bucket, disk>>]_vars

C14_Witness ==
    /\ http.op = "get_run" /\ http.job = "unknown" /\ http.code = 404
    /\ Has("j1")
    /\ "j1" \in queue

\* C15: a submission rejected for a validation reason gets a validation
\* error that names the constraint; no record is created or modified and
\* no task is enqueued.
C15_RejectedTouchesNothing ==
    [][\A dup \in BOOLEAN, u \in UserPaths :
          CreateRunRejected(dup, u) =>
              /\ http'.code \in {400, 422}
              /\ http'.detail \in {"Duplicate parameter name",
                                   "artifacts_path must be a safe relative path."}
              /\ UNCHANGED <<store, queue, job_try, payload, subPc, resp>>]_vars

C15_Witness ==
    /\ http.op = "create_run" /\ http.code = 400
    /\ Has("j1") /\ StatusOf("j1") = RUNNING
    /\ queue = {}

\* how the wait loop of a tool call was left
LoopReturned(j) == wait[j].pc \in {"completed", "ended"} /\ wait[j].info # None
LoopRaised(j, e) ==
    /\ wait[j].pc = "ended"
    /\ wait[j].info = None
    /\ wait[j].out[1].raised = e
LoopEnded(j) == wait[j].pc \in {"completed", "ended"}

C18_FailedHasNotice ==
    \A j \in Jobs :
        Has(j) /\ StatusOf(j) = FAILED =>
            /\ Rec(j)[1].error # None
            /\ Rec(j)[1].error[1].error_type # ""
            /\ Rec(j)[1].error_notice # None
            /\ Rec(j)[1].error_notice[1] # ""

\* a job failed by an exception that has no message
C18_Witness ==
    /\ Has("j1") /\ StatusOf("j1") = FAILED
    /\ Rec("j1")[1].error # None
    /\ Rec("j1")[1].error[1].message = ""
    /\ pc["j1"] = "done"


\* C19: update_status, set_result, set_error and get called for a job id
\* that has no record (never created, or expired) raise KeyError and leave
\* the store as it was; none of them creates a record.
C19_NotFoundOnAbsent ==
    [][\A j \in StoreJobs :
          (/\ ~Has(j)
           /\ \/ \E s \in JobStatus : CallUpdateStatus(j, s)
              \/ \E a \in Aggregates : CallSetResult(j, a)
              \/ \E t \in ErrorTypes, m \in Messages : CallSetError(j, t, m)
              \/ CallGet(j))
          => /\ last'.raised
             /\ last'.info = None
             /\ store' = store
             /\ _key(j) \notin DOMAIN store'
      ]_vars

\* set_result called, a TTL or more after the start, for an id without record
C19_Witness ==
    /\ last.op = "set_result" /\ last.job = "j1"
    /\ last.raised /\ last.before = None
    /\ store = << >>
    /\ now >= JobTtl


\* C20: every successful write (create, update_status, set_result,
\* set_error) leaves the record with the full TTL ahead of it, get leaves the
\* expiry alone, and a record is gone exactly from the moment a full TTL has
\* passed since its last write: until then every get finds it.
C20_SlidingExpiration ==
    /\ [](\A k \in DOMAIN store :
             /\ store[k].expires_at = store[k].info.updated_at + JobTtl
             /\ now < store[k].expires_at)
    /\ [][\A j \in StoreJobs :
             /\ (last'.job = j /\ last'.op \in {"create", "update_status",
                                                "set_result", "set_error"}
                 /\ ~last'.raised /\ now' = now /\ last' # last) =>
                    /\ _key(j) \in DOMAIN store'
                    /\ store'[_key(j)].expires_at = now + JobTtl
             /\ CallGet(j) => store' = store
             /\ (Has(j) /\ ~Has(j)') =>
                    /\ now' = now + 1
                    /\ now' = store[_key(j)].info.updated_at + JobTtl
      ]_vars

\* a record written again one tick after its creation is still there when
\* the TTL counted from its creation has run out
C20_Witness ==
    /\ Has("j1")
    /\ Rec("j1")[1].created_at = 0
    /\ Rec("j1")[1].updated_at = 1
    /\ now >= JobTtl
    /\ last.op = "get" /\ ~last.raised


\* C21: a listing request for a job id without a record is answered 404 and
\* the artifact backend is not contacted; for a job with a record a backend
\* failure is answered 502, never 404 and never a successful empty list;
\* otherwise the answer is {job_id, files} with the job id of the request.
C21_ListingErrors ==
    [][\A j \in ApiJobs, a \in BackendAnswers :
          ListArtifacts(j, a) =>
              /\ ~Has(j) => /\ http'.code = 404
                            /\ ~http'.backend
                            /\ bucket' = bucket
              /\ (Has(j) /\ a = "error") => http'.code = 502 /\ http'.body = None
              /\ (Has(j) /\ a # "error") =>
                    /\ http'.code = 200
                    /\ http'.body # None
                    /\ http'.body[1].job_id = j
                    /\ http'.body[1].files =
                          IF j \in bucket /\ a = "ok" THEN <<ArchivePath.segs>>
                                                      ELSE << >>
              /\ UNCHANGED <<store, queue>>]_vars

\* the backend failed while the archive of a finished job was being listed
C21_Witness ==
    /\ http.op = "list" /\ http.job = "j1" /\ http.code = 502
    /\ "j1" \in bucket
    /\ Has("j1") /\ Terminal(StatusOf("j1"))


\* the object a link is asked for, and whether the bucket holds it
LinkKey(j, p) == _object_key(j, p).key
Present(objs, j, p) == LinkKey(j, p) \in ObjectKeys /\ objs[LinkKey(j, p)] # None
Expired(objs, j, p) ==
    Present(objs, j, p) /\ objs[LinkKey(j, p)][1] + RetentionTtl <= now

\* C22: for a safe path and expires_seconds >= 1, get_download_link raises
\* FileNotFoundError when the object is absent or past its retention (and
\* then tries to remove it, touching no other object), and otherwise returns
\* a URL signed for that object; no URL is ever returned for an expired
\* object; an S3 error code outside the not-found set gives
\* ArtifactsStorageError, never FileNotFoundError.
C22_DownloadLinkOutcome ==
    [][\A j \in MinioJobs, p \in LinkPaths, c \in LinkCalls :
          (MinioGetDownloadLink(j, p, c[1], c[2], c[3])
              /\ ~_object_key(j, p).raised /\ c[1] >= 1) =>
              /\ (c[2] = NoFault /\ ~Present(objects, j, p)) =>
                    art'.raised = "FileNotFoundError" /\ objects' = objects
              /\ (c[2] = NoFault /\ Expired(objects, j, p)) =>
                    /\ art'.raised = "FileNotFoundError"
                    /\ objects' = IF c[3] THEN objects
                                  ELSE [objects EXCEPT ![LinkKey(j, p)] = None]
              /\ (c[2] = NoFault /\ Present(objects, j, p)
                                 /\ ~Expired(objects, j, p)) =>
                    /\ art'.raised = "none"
                    /\ art'.url = Some(LinkKey(j, p))
                    /\ objects' = objects
              /\ art'.url # None =>
                    Present(objects, j, p) /\ ~Expired(objects, j, p)
              /\ (c[2] # NoFault /\ c[2].code \notin NotFoundCodes) =>
                    art'.raised \in {"ArtifactsStorageError", "FileNotFoundError"}
              /\ (c[2] # NoFault /\ c[2].code \notin NotFoundCodes
                    /\ (c[2].stage # "sign" \/ ~Expired(objects, j, p))
                    /\ (c[2].stage # "sign" \/ Present(objects, j, p))) =>
                    art'.raised = "ArtifactsStorageError"
              /\ (c[2].stage = "stat" /\ c[2].code \in NotFoundCodes) =>
                    art'.raised = "FileNotFoundError"
      ]_vars

\* the archive was asked for after its retention ran out: not found, and
\* the object is gone from the bucket
C22_Witness ==
    /\ art.op = "get_download_link" /\ art.job = "j1" /\ art.path = ArchivePath
    /\ art.raised = "FileNotFoundError"
    /\ objects[<<"j1", "artifacts.zip">>] = None
    /\ objects[<<"j1", "sub", "a">>] # None
    /\ now >= RetentionTtl

\* the objects of job j that a listing made now has to pass over as expired
ExpiredUnder(objs, j) ==
    {k \in ObjectKeys : /\ StartsWithPrefix(k, j) /\ RelOf(k) # <<"">>
                        /\ _is_expired(objs[k], RetentionTtl, now)}

\* what a listing of job j that returned `files` from the bucket `objs` says:
\* own prefix only, prefix stripped, no prefix-only entry, nothing expired,
\* at most ListMaxKeys entries, ascending by path
ListingContent(objs, j, files) ==
    /\ Len(files) <= ListMaxKeys
    /\ \A i \in 1..Len(files) :
          LET k == <<j>> \o files[i].path
          IN  /\ k \in ObjectKeys /\ objs[k] # None
              /\ StartsWithPrefix(k, j)
              /\ files[i].path # <<"">>
              /\ ~_is_expired(objs[k], RetentionTtl, now)
    /\ \A i \in 1..Len(files), k \in 1..Len(files) :
          i < k => PathRank(files[i].path) < PathRank(files[k].path)

\* C23 as stated: a listing returns only unexpired objects of the job's own
\* prefix, prefix stripped, no prefix-only entry, at most ListMaxKeys of
\* them, ascending by path, and every expired object it came across (all of
\* them when the cap was not reached) is gone from the bucket afterwards.
C23_ExpiredAreDeleted ==
    [][\A j \in MinioJobs, c \in ListCalls :
          (MinioListFiles(j, c[1], c[2]) /\ ~c[1]) =>
              /\ art'.raised = "none"
              /\ ListingContent(objects, j, art'.files)
              /\ Len(art'.files) < ListMaxKeys =>
                    \A k \in ExpiredUnder(objects, j) : objects'[k] = None
      ]_vars

\* C23 (amended): same content of the listing; the removal of the expired
\* objects is attempted and a failing removal is passed over: the expired
\* objects are gone when remove_object works, stay when it fails, are left
\* out of the listing either way, and no other object is touched.
C23_ListingContent ==
    [][\A j \in MinioJobs, c \in ListCalls :
          (MinioListFiles(j, c[1], c[2]) /\ ~c[1]) =>
              /\ art'.raised = "none"
              /\ ListingContent(objects, j, art'.files)
              /\ (Len(art'.files) < ListMaxKeys /\ ~c[2]) =>
                    \A k \in ExpiredUnder(objects, j) : objects'[k] = None
              /\ c[2] => objects' = objects
              /\ \A k \in ObjectKeys :
                    objects'[k] # objects[k] =>
                        k \in ExpiredUnder(objects, j) /\ objects'[k] = None
      ]_vars

\* a listing reached its cap with the two live entries in order, while the
\* expired archive it passed over is still in the bucket (its removal failed)
C23_Witness ==
    /\ art.op = "list_files" /\ art.job = "j1" /\ art.raised = "none"
    /\ art.files = << [path |-> <<"sub", "">>], [path |-> <<"sub", "a">>] >>
    /\ <<"j1", "artifacts.zip">> \in ExpiredUnder(objects, "j1")

KeyFree(m) ==
    /\ "api_key" \notin DOMAIN m
    /\ m.api_key_present \in BOOLEAN
    /\ m.model \notin KeyValues /\ m.base_url \notin KeyValues
    /\ m.model_description \notin {Some(v) : v \in KeyValues}

\* two submissions that differ at most in the values of non-empty API keys
SameButKeys(a, b) ==
    /\ [a.req EXCEPT !.tested_model.api_key = None]
          = [b.req EXCEPT !.tested_model.api_key = None]
    /\ (a.req.tested_model.api_key = None) <=> (b.req.tested_model.api_key = None)
    /\ [a.settings EXCEPT !.attack_openai_api_key = "", !.judge_openai_api_key = ""]
          = [b.settings EXCEPT !.attack_openai_api_key = "", !.judge_openai_api_key = ""]
    /\ (a.settings.attack_openai_api_key = "") <=> (b.settings.attack_openai_api_key = "")
    /\ (a.settings.judge_openai_api_key = "") <=> (b.settings.judge_openai_api_key = "")

\* C25: the request stored in a record carries no API key value: each of the
\* three model configs has only the boolean api_key_present, true exactly
\* when a key was given; and two submissions that differ only in the values
\* of non-empty API keys (tested, attack or judge model) leave identical
\* stored requests.
C25_Redaction ==
    /\ \A i \in 1..Len(req_arg) :
          LET sub == req_arg[i].sub
              s   == req_arg[i].stored
          IN  /\ \A m \in {s.tested_model, s.attack_model, s.judge_model} : KeyFree(m)
              /\ s.tested_model.api_key_present = (sub.req.tested_model.api_key # None)
              /\ s.attack_model.api_key_present = (sub.settings.attack_openai_api_key # "")
              /\ s.judge_model.api_key_present = (sub.settings.judge_openai_api_key # "")
    /\ \A i \in 1..Len(req_arg), k \in 1..Len(req_arg) :
          SameButKeys(req_arg[i].sub, req_arg[k].sub) =>
              req_arg[i].stored = req_arg[k].stored
    /\ req_arg # NoReqs =>
          \E j \in Jobs : /\ ~JobStoreGet(store, j).raised
                          /\ JobStoreGet(store, j).info[1].request
                                = req_arg[Len(req_arg)].stored

\* two submissions whose three keys all differ in value were stored, and the
\* two stored requests are the same
C25_Witness ==
    /\ Len(req_arg) = 2
    /\ req_arg[1].sub.req.tested_model.api_key = Some("k1")
    /\ req_arg[2].sub.req.tested_model.api_key = Some("k2")
    /\ req_arg[1].sub.settings.attack_openai_api_key = "k2"
    /\ req_arg[2].sub.settings.attack_openai_api_key = "k1"
    /\ req_arg[1].sub.settings.judge_openai_api_key = "k1"
    /\ req_arg[2].sub.settings.judge_openai_api_key = "k2"
    /\ SameButKeys(req_arg[1].sub, req_arg[2].sub)
    /\ req_arg[1].stored = req_arg[2].stored
    /\ req_arg[1].stored.tested_model.api_key_present
    /\ last.op = "create"

\* an invocation of the executor that set the job to Running has ended by
\* returning or by raising (not by a cancellation)
Ended(j) ==
    /\ pc[j] = "done" /\ hist[j].set_running
    /\ hist[j].outcome \in {"returned", "raised"}

ExceptionPath(j) ==
    /\ hist[j].set_running
    /\ \/ hist[j].engine \in {"raised", "invalid"}
       \/ hist[j].engine = "none" /\ ex[j].path = "exc"

\* C27: when input resolution, the engine call or the validation of its
\* result raised, the invocation ends by raising, after set_error was
\* written; and that write leaves the record Failed with the exception's
\* type name and message.
C27_ExceptionRecorded ==
    [][\A j \in Jobs :
          /\ (pc[j] # "done" /\ pc'[j] = "done" /\ ExceptionPath(j)') =>
                /\ hist'[j].outcome = "raised"
                /\ Steps(j, "persist")' # {}
          /\ (Persist(j) /\ ExceptionPath(j)' /\ Steps(j, "persist")' # {}) =>
                /\ Has(j)' /\ StatusOf(j)' = FAILED
                /\ Rec(j)'[1].error # None
                /\ Rec(j)'[1].error[1].error_type = ex'[j].exc_type
                /\ Rec(j)'[1].error[1].message = ex'[j].exc_msg
      ]_vars

\* C28: an invocation whose engine call raised or returned an empty
\* aggregate, and that has written the Failed state, ends by raising to the
\* queue runtime.
C28_DomainFailureRaises ==
    [][\A j \in Jobs :
          (/\ pc[j] # "done" /\ pc'[j] = "done"
           /\ hist'[j].set_running
           /\ hist'[j].engine \in {"raised", "empty"}
           /\ Steps(j, "persist")' # {}) =>
              hist'[j].outcome = "raised"
      ]_vars

Calls(ev) == {i \in DOMAIN ev : ev[i] = "call"}

\* C29: within one invocation upload_job_artifacts is called at most
\* max(1, artifacts_upload_max_retries) times, never again after a call
\* that succeeded, and the retry delay is slept only between a failed call
\* and the next call.
C29_BoundedUploadAttempts ==
    \A j \in Jobs :
        LET ev == hist[j].uploads
        IN  /\ Cardinality(Calls(ev)) <= Max(1, artifacts_upload_max_retries)
            /\ \A i \in DOMAIN ev, k \in DOMAIN ev :
                  (ev[i] = "ok" /\ i < k) => ev[k] # "call"
            /\ \A i \in DOMAIN ev :
                  ev[i] = "sleep" =>
                      /\ i > 1 /\ ev[i - 1] = "fail"
                      /\ i < Len(ev) /\ ev[i + 1] = "call"

\* C30: when an invocation that built the artifacts lifecycle has ended, the
\* local job directory was removed by it exactly when one of its upload
\* calls succeeded.
C30_CleanupIffUploaded ==
    \A j \in Jobs :
        (pc[j] = "done" /\ ex[j].lifecycle) =>
            LET some_ok == \E i \in DOMAIN hist[j].uploads : hist[j].uploads[i] = "ok"
            IN  /\ (Steps(j, "cleanup") # {}) <=> some_ok
                /\ (j \in disk) <=> ~some_ok

\* C34: the status values the system writes to a job's record follow
\* Queued, Running, T with T Succeeded or Failed: the record is created
\* once, as Queued; it is set to Running once, from Queued; a terminal
\* status is written once, from Running; and no other change of status
\* happens.
C34_StatusSequence ==
    [][\A j \in Jobs :
          /\ (~Has(j) /\ Has(j)') =>
                (StatusOf(j)' = QUEUED /\ hist[j].created = 0 /\ hist'[j].created = 1)
          /\ (Has(j) /\ Has(j)' /\ StatusOf(j)' # StatusOf(j)) =>
                \/ /\ StatusOf(j) = QUEUED /\ StatusOf(j)' = RUNNING
                   /\ Steps(j, "running") = {}
                \/ /\ StatusOf(j) = RUNNING /\ Terminal(StatusOf(j)')
                   /\ Steps(j, "persist") = {}
          /\ Cardinality(Steps(j, "running")') <= 1
          /\ Cardinality(Steps(j, "persist")') <= 1
          /\ hist'[j].created <= 1
          /\ (Has(j) /\ Has(j)' /\ Steps(j, "persist")' # Steps(j, "persist")) =>
                (StatusOf(j) = RUNNING /\ Terminal(StatusOf(j)'))
      ]_vars

\* a record went Queued, Running, Failed: all three writes were made
C34_Witness ==
    \E j \in Jobs :
        /\ hist[j].created = 1
        /\ hist[j].trace = <<"running", "engine", "upload", "persist">>
        /\ Has(j) /\ StatusOf(j) = FAILED

\* C35: every job whose record submit created eventually has a terminal
\* status in the Job Store.
C35_EventuallyTerminal ==
    \A j \in Jobs :
        (hist[j].created > 0) ~> (Has(j) /\ Terminal(StatusOf(j)))

\* C39: the created_at that submit returned for a job equals the created_at
\* stored in the job's record.
C39_CreatedAtAgrees ==
    \A j \in Jobs :
        (resp[j] # None /\ Has(j)) =>
            resp[j][1].created_at = Rec(j)[1].created_at

\* C36: update_status, set_result and set_error leave created_at as create
\* set it; updated_at never decreases from one write of a record to the
\* next; and created_at <= updated_at in every state.
C36_Timestamps ==
    /\ [][\A j \in StoreJobs :
             (Has(j) /\ Has(j)') =>
                 /\ Rec(j)'[1].updated_at >= Rec(j)[1].updated_at
                 /\ last'.op \in {"update_status", "set_result", "set_error"} =>
                       Rec(j)'[1].created_at = Rec(j)[1].created_at
         ]_vars
    /\ [](\A j \in StoreJobs :
             Has(j) => Rec(j)[1].created_at <= Rec(j)[1].updated_at)

\* a record created at time 0 was written again after the clock advanced:
\* created_at is still 0 and updated_at moved on
C36_Witness ==
    \E j \in StoreJobs :
        /\ last.op = "set_error" /\ last.job = j /\ ~last.raised
        /\ last.before # None /\ last.before[1].status = RUNNING
        /\ Has(j)
        /\ Rec(j)[1].created_at = 0
        /\ last.before[1].updated_at = 1
        /\ Rec(j)[1].updated_at = 2

\* C38: an invocation that finds no record for its job (update_status
\* raises KeyError) ends by raising at once: the engine is not called,
\* nothing is uploaded or cleaned up, no directory is made, and no record
\* is created for that job id.
C38_MissingRecord ==
    [][\A j \in Jobs :
          (WorkerRunJob(j) /\ job_try[j] + 1 <= max_tries /\ ~Has(j)) =>
              /\ pc'[j] = "done" /\ hist'[j].outcome = "raised"
              /\ ~hist'[j].set_running
              /\ hist'[j].engine = hist[j].engine
              /\ hist'[j].trace = hist[j].trace
              /\ hist'[j].uploads = hist[j].uploads
              /\ ~ex'[j].lifecycle
              /\ ~Has(j)' /\ store' = store
              /\ disk' = disk /\ bucket' = bucket
      ]_vars

\* the record expired while the task was queued, and the invocation for it
\* has ended by raising without a single step
C38_Witness ==
    \E j \in Jobs :
        /\ hist[j].created = 1 /\ hist[j].started = 1
        /\ pc[j] = "done" /\ hist[j].outcome = "raised"
        /\ ~hist[j].set_running /\ hist[j].trace = << >>
        /\ ~Has(j) /\ j \notin disk

\* C37: the payload that submit enqueued is accepted by the executor: once
\* an invocation has set the job to Running, its inputs resolve, the
\* artifacts lifecycle is built and the engine is called; the job is not
\* failed by the validation of the run_config that submit wrote.
C37_SubmittedReachEngine ==
    \A j \in Jobs :
        hist[j].set_running =>
            /\ ex[j].lifecycle
            /\ ~(ex[j].path = "exc" /\ hist[j].engine = "none"
                    /\ ex[j].exc_type \in {"ValidationError", "ValueError"})

\* the objects under the job's prefix
UnderPrefix(objs, j) == {k \in ObjectKeys : StartsWithPrefix(k, j) /\ objs[k] # None}

C40_PresignClientOnce ==
    /\ [](/\ presign.built <= 1
          /\ Cardinality({c \in Callers : presign.pc[c] = "lookup"}) <= 1
          /\ \A c \in Callers :
                presign.pc[c] = "done" =>
                    presign.client # None /\ presign.got[c] = presign.client)
    /\ [][ /\ presign.client # None =>
                /\ presign'.client = presign.client
                /\ presign'.lookups = presign.lookups
           /\ \A c \in Callers :
                (PresignLookupReturns(c, FALSE) \/ PresignCancelled(c)) =>
                    presign'.client = None
         ]_vars

\* a first lookup failed, a later call looked the region up again and built
\* the client, and two callers have returned with that same client
C40_Witness ==
    /\ presign.lookups = 2 /\ presign.built = 1
    /\ presign.client = Some(1)
    /\ presign.pc["c1"] = "done" /\ presign.pc["c2"] = "done"
    /\ presign.got["c1"] = presign.got["c2"]
    /\ presign.pc["c3"] = "raised"

\* an entry of the root is at least the local TTL old now
Old(e) == OldEnough(local.mtime, e, now, artifacts_local_ttl_seconds)

\* C31 (as stated): a startup sweep removes every entry under the artifacts
\* root that is at least the local TTL old, whether or not its job is over
\* or was uploaded, and leaves the younger entries as they were; an entry
\* whose removal fails stays and the others are swept all the same.
C31_SweepRemovesAllOld ==
    [][ \A list_fault \in ListFaults, stat_fail \in SweepFails,
           del_fail \in SweepFails :
          WorkerStartup(TRUE, list_fault, stat_fail, del_fail) =>
            \A e \in SweepEntries :
                /\ (Old(e) /\ e \notin del_fail) =>
                        local'.mtime[e] = None
                /\ ~Old(e) =>
                        local'.mtime[e] = local.mtime[e]
      ]_vars

\* C31 (amended): when the listing of the artifacts root succeeds, a startup
\* sweep removes every entry that is at least the local TTL old, whether or
\* not its job is over or was uploaded, except an entry whose stat fails or
\* whose removal fails, which stays while the others are swept all the
\* same; the younger entries are left as they were; when the listing of the
\* root fails nothing is removed.
C31_SweepRemovesOld ==
    [][ \A list_fault \in ListFaults, stat_fail \in SweepFails,
           del_fail \in SweepFails :
          WorkerStartup(TRUE, list_fault, stat_fail, del_fail) =>
            \A e \in SweepEntries :
                /\ (/\ Old(e)
                    /\ list_fault = "none"
                    /\ e \notin stat_fail /\ e \notin del_fail) =>
                        local'.mtime[e] = None
                /\ (\/ ~Old(e)
                    \/ list_fault # "none"
                    \/ e \in stat_fail \/ e \in del_fail) =>
                        local'.mtime[e] = local.mtime[e]
      ]_vars

\* a sweep met two old directories, one of a job that had ended without an
\* upload; the removal of one failed and the other is gone
C31_Witness ==
    /\ local.sweep.ran /\ local.sweep.list_fault = "none"
    /\ local.sweep.del_fail = {"j1"} /\ local.sweep.stat_fail = {}
    /\ local.sweep.old = {"j1", "j2"}
    /\ local.running = {}
    /\ local.mtime["j1"] # None
    /\ local.mtime["j2"] = None

\* C32: while the executor invocation of a job is in progress, the startup
\* sweep of a worker process on the same artifacts root leaves the job's
\* local directory as it is.
C32_SweepSparesRunningJobs ==
    [][ \A ready \in BOOLEAN, list_fault \in ListFaults,
           stat_fail \in SweepFails, del_fail \in SweepFails :
          WorkerStartup(ready, list_fault, stat_fail, del_fail) =>
            \A e \in local.running : local'.mtime[e] = local.mtime[e]
      ]_vars


====
